---------------------------- MODULE Spec2Model ----------------------------
(***************************************************************************)
(* Model of go-to-kindle's image resolution and inlining pipeline:         *)
(*   - the image transform (postprocessing/images.go, resizeImageBytes),   *)
(*   - the webarchive resource lookup (internal/webarchive, resolveResource)*)
(*   - the DOM rewriter (postprocessing/postprocessing.go, processContent). *)
(*                                                                         *)
(* Strings are sequences of tokens.  A token is an atomic piece of text    *)
(* (one character, or a name no operation of the program looks into).      *)
(* "," and " " are always tokens of their own, so splitting a string on    *)
(* them is modelled as the code does it.                                    *)
(***************************************************************************)
EXTENDS Integers, Sequences, FiniteSets, TLC

VARIABLES
    \* ---- image transform (processImageData)
    tpc,            \* "start" | "done"
    tdata,          \* the image bytes handed to processImageData
    tout,           \* its result: [err, url, data, format]
    \* ---- archive lookup (resolveResource)
    lpc,            \* "start" | "done"
    lraw,           \* the raw source string
    lbase,          \* the base URL (NoURL when nil)
    ltable,         \* the resource table: key string -> Resource
    lres,           \* the result: [found, res, step]
    \* ---- archive decoding (DecodeFile)
    dpc,            \* "start" | "done"
    dcontents,      \* the file contents: a plist holding an archive, or not
    dres,           \* the result: [data, baseURL, resources, err]
    \* ---- one ResolveImage call on a resolver
    npc,            \* "start" | "fallback" | "fetching" | "done"
    nresolver,      \* the resolver: [kind, fallback]
    nclient,        \* the network resolver's client: [nil, timeout]
    nsrc,           \* the source string
    nbase,          \* the base URL
    ntable,         \* the archive resolver's resource table
    nserver,        \* how the remote server answers a request
    nhit,           \* what the table lookup returned
    nreqs,          \* the HTTP requests sent so far
    nfallback,      \* how often the fallback resolver was called
    nfbout,         \* what the fallback resolver returned
    nout,           \* the result: [url, ok, err]
    \* ---- DOM rewriter (processContent)
    pc,             \* position in processContent
    input,          \* the parsed input document (kept for reference)
    doc,            \* the document being rewritten
    excludeImages,  \* the caller's flag
    resolver,       \* the resolver: source string -> outcome
    imageCount,     \* the count processContent returns
    calls,          \* every ResolveImage call so far, in order
    passlog,        \* what each pass did to each element it visited
    err,            \* the error processContent returns ("" for nil)
    \* the archive path of ProcessArticleWithContext: InlineImages, then processContent
    ipc,            \* position in the archive path
    ihtml,          \* the article content handed to InlineImages
    itable,         \* the resources of the archive
    iinlined,       \* what InlineImages returns
    ioffered,       \* the sources handed to the fallback resolver, in order
    ifinal,         \* what processContent returns for the inlined content
    \* pickBestFromSrcset
    spc,            \* position in the call
    ssrcset,        \* the srcset attribute, as the entries it was written from
    sbest,          \* the URL returned
    \* the retrieval chain: NewChain, then Chain.Retrieve
    cpc,            \* position in NewChain and RetrieveWithCallback
    cconfig,        \* Config: whether an API key is set, ForceScrapingBee
    curl,           \* the URL to retrieve
    cweb,           \* what each method meets when it requests the URL
    cmethods,       \* Chain.methods
    cnext,          \* the position of the loop over the methods
    ctried,         \* the methods whose Retrieve has been called, in order
    cfallbackErrors, \* fallbackErrors
    clastError,     \* lastError ("" for nil)
    cresult,        \* the Result returned
    \* the TUI: model.Update
    ustate,         \* model.state
    uurl,           \* urlInput.Value()
    uexclude,       \* model.excludeImages
    uchromedp,      \* model.useChromedp
    ufocus,         \* model.checkboxFocused
    uerr,           \* model.err ("" for nil)
    upending,       \* the command whose message is still to come
    uquit           \* tea.Quit has been returned

tvars == <<tpc, tdata, tout>>
lvars == <<lpc, lraw, lbase, ltable, lres>>
dvars == <<dpc, dcontents, dres>>
nvars == <<npc, nresolver, nclient, nsrc, nbase, ntable, nserver, nhit, nreqs,
           nfallback, nfbout, nout>>
rvars == <<pc, input, doc, excludeImages, resolver, imageCount, calls, passlog, err>>
ivars == <<ipc, ihtml, itable, iinlined, ioffered, ifinal>>
svars == <<spc, ssrcset, sbest>>
cvars == <<cpc, cconfig, curl, cweb, cmethods, cnext, ctried, cfallbackErrors, clastError,
           cresult>>
uvars == <<ustate, uurl, uexclude, uchromedp, ufocus, uerr, upending, uquit>>
vars == <<tvars, lvars, dvars, nvars, rvars, ivars, svars, cvars, uvars>>

(***************************************************************************)
(* Strings                                                                 *)
(***************************************************************************)
Max(a, b) == IF a >= b THEN a ELSE b
Abs(a) == IF a >= 0 THEN a ELSE -a

\* strings.HasPrefix
HasPrefix(s, p) == Len(s) >= Len(p) /\ SubSeq(s, 1, Len(p)) = p

\* strings.HasSuffix
HasSuffix(s, p) == Len(s) >= Len(p) /\ SubSeq(s, Len(s) - Len(p) + 1, Len(s)) = p

\* strings.Index: the first position where sub starts in s, 0 for Go's -1
Index(s, sub) ==
    LET hits == {i \in 1..(Len(s) - Len(sub) + 1) : SubSeq(s, i, i + Len(sub) - 1) = sub}
    IN IF hits = {} THEN 0 ELSE CHOOSE i \in hits : \A j \in hits : i <= j

\* strings.LastIndex: the last position where sub starts in s, 0 for Go's -1
LastIndex(s, sub) ==
    LET hits == {i \in 1..(Len(s) - Len(sub) + 1) : SubSeq(s, i, i + Len(sub) - 1) = sub}
    IN IF hits = {} THEN 0 ELSE CHOOSE i \in hits : \A j \in hits : i >= j

\* strings.Contains
Contains(s, sub) == Index(s, sub) # 0

\* strings.ReplaceAll, left to right, non-overlapping
RECURSIVE ReplaceAll(_, _, _)
ReplaceAll(s, old, new) ==
    IF Len(s) = 0 THEN <<>>
    ELSE IF HasPrefix(s, old) THEN new \o ReplaceAll(SubSeq(s, Len(old) + 1, Len(s)), old, new)
    ELSE <<Head(s)>> \o ReplaceAll(Tail(s), old, new)

\* strings.Split(s, sep) for a one-token separator: always at least one part
RECURSIVE SplitOn(_, _)
SplitOn(s, sep) ==
    LET i == Index(s, <<sep>>)
    IN IF i = 0 THEN <<s>>
       ELSE <<SubSeq(s, 1, i - 1)>> \o SplitOn(SubSeq(s, i + 1, Len(s)), sep)

\* strings.SplitN(s, sep, 2)
SplitN2(s, sep) ==
    LET i == Index(s, <<sep>>)
    IN IF i = 0 THEN <<s>> ELSE <<SubSeq(s, 1, i - 1), SubSeq(s, i + 1, Len(s))>>

\* strings.TrimSpace
RECURSIVE TrimLeft(_)
TrimLeft(s) == IF Len(s) > 0 /\ Head(s) = " " THEN TrimLeft(Tail(s)) ELSE s
RECURSIVE TrimRight(_)
TrimRight(s) == IF Len(s) > 0 /\ s[Len(s)] = " " THEN TrimRight(SubSeq(s, 1, Len(s) - 1)) ELSE s
TrimSpace(s) == TrimRight(TrimLeft(s))

\* strings.Fields: the maximal runs of non-space tokens
RECURSIVE Fields(_)
Fields(s) ==
    LET t == TrimLeft(s)
        i == Index(t, <<" ">>)
    IN IF Len(t) = 0 THEN <<>>
       ELSE IF i = 0 THEN <<t>>
       ELSE <<SubSeq(t, 1, i - 1)>> \o Fields(SubSeq(t, i + 1, Len(t)))

(***************************************************************************)
(* Image transform: postprocessing/images.go                               *)
(***************************************************************************)
\* images.go:25
maxImageDimension == 300

\* Image bytes: the format image.DecodeConfig detects ("none": no registered
\* decoder accepts the header), the pixel size, whether the body after the
\* header decodes, and the number of bytes (len(data)).
Bytes(f, w, h, ok, n) == [format |-> f, w |-> w, h |-> h, intact |-> ok, n |-> n]
NoBytes == Bytes("none", 0, 0, FALSE, 0)

\* the formats with a registered decoder: jpeg, png, gif (imported for their
\* encoders), webp (blank import), and "bmp" for any other registered decoder
DecodableFormats == {"jpeg", "png", "gif", "webp", "bmp"}

\* resize.Thumbnail(maxWidth, maxHeight, img, filter): the size of its result
Thumbnail(maxWidth, maxHeight, img) ==
    IF maxWidth >= img.w /\ maxHeight >= img.h THEN [w |-> img.w, h |-> img.h]
    ELSE
      LET h1 == IF img.w > maxWidth
                THEN Max(1, (img.h * maxWidth) \div img.w)
                ELSE img.h
          w1 == IF img.w > maxWidth THEN maxWidth ELSE img.w
          w2 == IF h1 > maxHeight THEN Max(1, (w1 * maxHeight) \div h1) ELSE w1
          h2 == IF h1 > maxHeight THEN maxHeight ELSE h1
      IN [w |-> w2, h |-> h2]

\* jpeg.Encode and gif.Encode refuse an image of 65536 pixels or more a side
EncodeLimit == 2^16
EncodeFails(outputFormat, size) ==
    /\ outputFormat \in {"jpeg", "gif"}
    /\ (size.w >= EncodeLimit \/ size.h >= EncodeLimit)

\* the switch of resizeImageBytes
OutputFormatNoWebpCase(format) ==
    CASE format = "jpeg" -> "jpeg"
      [] format = "png"  -> "png"
      [] format = "gif"  -> "gif"
      [] OTHER           -> format
OutputFormat(format) ==
    CASE format = "jpeg" -> "jpeg"
      [] format = "png"  -> "png"
      [] format = "gif"  -> "gif"
      [] format = "webp" -> "jpeg"
      [] OTHER           -> "jpeg"

\* the length of an encoder's output: some positive number fixed by the pixels
EncodedLen(size) == size.w * size.h

ResizeErr(e) == [err |-> e, data |-> NoBytes, format |-> ""]

resizeImageBytesNoThumbnail(data, maxDim) ==
    IF data.format \notin DecodableFormats THEN ResizeErr("failed to decode image config")
    ELSE IF ~data.intact THEN ResizeErr("failed to decode image")
    ELSE [err |-> "", data |-> Bytes(OutputFormat(data.format), data.w, data.h, TRUE, EncodedLen(data)),
          format |-> OutputFormat(data.format)]
resizeImageBytes(data, maxDim) ==
    IF data.format \notin DecodableFormats THEN ResizeErr("failed to decode image config")
    ELSE IF ~data.intact THEN ResizeErr("failed to decode image")
    ELSE
      LET size == Thumbnail(maxDim, maxDim, data)
          outputFormat == OutputFormat(data.format)
      IN IF EncodeFails(outputFormat, size) THEN ResizeErr("failed to encode resized image")
         ELSE [err |-> "", data |-> Bytes(outputFormat, size.w, size.h, TRUE, EncodedLen(size)),
               format |-> outputFormat]

\* base64.StdEncoding.EncodeToString: one token spelling the bytes out
Base64Encode(data) ==
    data.format \o ":" \o ToString(data.w) \o "x" \o ToString(data.h) \o ":"
    \o (IF data.intact THEN "ok" ELSE "cut") \o ":" \o ToString(data.n)

\* imageToBase64DataURL: "data:" + contentType + ";base64," + payload
imageToBase64DataURL(data, contentType) ==
    <<"data:">> \o contentType \o <<";base64", ",", Base64Encode(data)>>

\* processImageData
processImageData(imageData) ==
    LET r == resizeImageBytes(imageData, maxImageDimension)
    IN IF r.err # "" THEN [err |-> r.err, url |-> <<>>, data |-> NoBytes, format |-> ""]
       ELSE [err |-> "", url |-> imageToBase64DataURL(r.data, <<"image/", r.format>>),
             data |-> r.data, format |-> r.format]

(***************************************************************************)
(* URLs: net/url as the lookup uses it.  A URL string is                   *)
(*   [scheme ":"] ["//" host] path                                         *)
(* with "https:" / "http:" and "//" and the host as tokens; a "%" token is *)
(* an invalid escape, which url.Parse rejects.                             *)
(***************************************************************************)
URL(scheme, host, path) == [scheme |-> scheme, host |-> host, path |-> path]
NoURL == URL("nil", "", <<>>)

SchemeTokens == {"https:", "http:"}
SchemeOf(tok) == IF tok = "https:" THEN "https" ELSE "http"
SchemeToken(scheme) == IF scheme = "https" THEN "https:" ELSE "http:"

\* url.Parse
ParseFails(raw) == \E i \in 1..Len(raw) : raw[i] = "%"
ParseURL(raw) ==
    LET hasScheme == Len(raw) >= 1 /\ raw[1] \in SchemeTokens
        scheme == IF hasScheme THEN SchemeOf(raw[1]) ELSE ""
        rest == IF hasScheme THEN Tail(raw) ELSE raw
        hasHost == Len(rest) >= 2 /\ rest[1] = "//" /\ rest[2] # "/"
    IN IF hasHost THEN URL(scheme, rest[2], SubSeq(rest, 3, Len(rest)))
       ELSE URL(scheme, "", rest)

\* (*URL).IsAbs
IsAbs(u) == u.scheme # ""

\* (*URL).String
URLString(u) ==
    (IF u.scheme # "" THEN <<SchemeToken(u.scheme)>> ELSE <<>>)
    \o (IF u.host # "" THEN <<"//", u.host>> ELSE <<>>)
    \o (IF u.host # "" /\ Len(u.path) > 0 /\ u.path[1] # "/" THEN <<"/">> ELSE <<>>)
    \o u.path

\* (*URL).ResolveReference, for a reference that is not absolute
ResolveReference(base, ref) ==
    IF ref.host # "" THEN URL(base.scheme, ref.host, ref.path)
    ELSE IF Len(ref.path) = 0 THEN base
    ELSE IF ref.path[1] = "/" THEN URL(base.scheme, base.host, ref.path)
    ELSE LET cut == LastIndex(base.path, <<"/">>)
         IN URL(base.scheme, base.host,
                (IF cut = 0 THEN <<"/">> ELSE SubSeq(base.path, 1, cut)) \o ref.path)

(***************************************************************************)
(* Archive lookup: internal/webarchive (resolveResource and its helpers)    *)
(***************************************************************************)
Resource(u, mime, data) == [URL |-> u, MIMEType |-> mime, Data |-> data]
NoResource == Resource(<<>>, <<>>, NoBytes)

JCRColon == <<"/", "jcr:content", "/">>
JCRUnderscore == <<"/", "_jcr_content", "/">>

\* withJCRVariant: NoURL for nil
withJCRVariant(parsed, useUnderscore) ==
    IF parsed = NoURL THEN NoURL
    ELSE IF Contains(parsed.path, JCRUnderscore) /\ ~useUnderscore
      THEN [parsed EXCEPT !.path = ReplaceAll(parsed.path, JCRUnderscore, JCRColon)]
    ELSE IF Contains(parsed.path, JCRColon) /\ useUnderscore
      THEN [parsed EXCEPT !.path = ReplaceAll(parsed.path, JCRColon, JCRUnderscore)]
    ELSE NoURL


\* isDigits
isDigits(s) == Len(s) > 0 /\ \A i \in 1..Len(s) : s[i] \in {"0", "1", "2", "3", "4", "5", "6", "7", "8", "9"}

\* stripSizeSuffix
stripSizeSuffix(path) ==
    LET dot == LastIndex(path, <<".">>)
        base == SubSeq(path, 1, dot - 1)
        ext == SubSeq(path, dot, Len(path))
        dash == LastIndex(base, <<"-">>)
        size == SubSeq(base, dash + 1, Len(base))
        parts == SplitOn(size, "x")
    IN IF dot = 0 THEN path
       ELSE IF dash = 0 THEN path
       ELSE IF Len(parts) # 2 THEN path
       ELSE IF ~isDigits(parts[1]) \/ ~isDigits(parts[2]) THEN path
       ELSE SubSeq(base, 1, dash - 1) \o ext

\* the asset root of findResourceByAsset
AssetRoot(path) ==
    LET i1 == Index(path, JCRColon)
        r1 == IF i1 # 0 THEN SubSeq(path, 1, i1 - 1) ELSE path
        i2 == Index(r1, JCRUnderscore)
    IN IF i2 # 0 THEN SubSeq(r1, 1, i2 - 1) ELSE r1

\* the resources the scan of findResourceByAsset does not skip
AssetMatches(parsed, resources) ==
    {res \in {resources[k] : k \in DOMAIN resources} :
        /\ res.URL # <<>>
        /\ HasPrefix(res.MIMEType, <<"image/">>)
        /\ ~ParseFails(res.URL)
        /\ ParseURL(res.URL).path # <<>>
        /\ HasPrefix(ParseURL(res.URL).path, AssetRoot(parsed.path))}

\* findResourceByAsset: the set of resources it can return (the scan ranges
\* over a Go map, whose order is unspecified, and keeps the first resource of
\* the largest length it meets); {} when it reports no match
findResourceByAssetAnyType(parsed, resources) ==
    IF parsed = NoURL \/ parsed.path = <<>> THEN {}
    ELSE LET m == {res \in {resources[k] : k \in DOMAIN resources} :
                     /\ ~ParseFails(res.URL)
                     /\ HasPrefix(ParseURL(res.URL).path, AssetRoot(parsed.path))}
         IN {res \in m : res.Data.n > 0 /\ \A o \in m : o.Data.n <= res.Data.n}
findResourceByAsset(parsed, resources) ==
    IF parsed = NoURL \/ parsed.path = <<>> THEN {}
    ELSE LET m == AssetMatches(parsed, resources)
         IN {res \in m : res.Data.n > 0 /\ \A o \in m : o.Data.n <= res.Data.n}

\* resources[key]: the set holding the resource, {} when the key is absent
Get(resources, key) == IF key \in DOMAIN resources THEN {resources[key]} ELSE {}
GetURL(resources, u) == IF u = NoURL THEN {} ELSE Get(resources, URLString(u))

\* the URL resolveResource looks up: the source resolved against the base
Resolved(raw, baseURL) ==
    LET parsed == ParseURL(raw)
    IN IF ~IsAbs(parsed) /\ baseURL # NoURL THEN ResolveReference(baseURL, parsed) ELSE parsed

\* the path with the size suffix stripped, NoURL when there is nothing to strip
Stripped(parsed) ==
    IF parsed.path # <<>> /\ stripSizeSuffix(parsed.path) # parsed.path
    THEN [parsed EXCEPT !.path = stripSizeSuffix(parsed.path)]
    ELSE NoURL

\* The lookups of resolveResource in the order of its code, each the set of
\* resources that lookup alone yields: 1 exact, 2-3 content-node variant,
\* 4-6 size suffix stripped (exact, variants), 7 asset root, 8 raw key
Lookup(n, raw, baseURL, resources) ==
    LET parsed == Resolved(raw, baseURL)
    IN IF n = 8 THEN Get(resources, raw)
       ELSE IF ParseFails(raw) THEN {}
       ELSE CASE n = 1 -> GetURL(resources, parsed)
              [] n = 2 -> GetURL(resources, withJCRVariant(parsed, TRUE))
              [] n = 3 -> GetURL(resources, withJCRVariant(parsed, FALSE))
              [] n = 4 -> GetURL(resources, Stripped(parsed))
              [] n = 5 -> GetURL(resources, withJCRVariant(Stripped(parsed), TRUE))
              [] n = 6 -> GetURL(resources, withJCRVariant(Stripped(parsed), FALSE))
              [] n = 7 -> findResourceByAsset(parsed, resources)

Found(res, n) == [found |-> TRUE, res |-> res, step |-> n]
NotFound == [found |-> FALSE, res |-> NoResource, step |-> 0]

\* resolveResource from lookup n on: the results it can return ("step" records
\* which lookup hit; the code returns the resource and the flag)
RECURSIVE resolveFrom(_, _, _, _, _)
resolveFrom(n, order, raw, baseURL, resources) ==
    IF n > Len(order) THEN {NotFound}
    ELSE LET hit == Lookup(order[n], raw, baseURL, resources)
         IN IF hit # {} THEN {Found(res, order[n]) : res \in hit}
            ELSE resolveFrom(n + 1, order, raw, baseURL, resources)

resolveResourceRawKeyFirst(raw, baseURL, resources) ==
    resolveFrom(1, <<8, 1, 2, 3, 4, 5, 6, 7>>, raw, baseURL, resources)
resolveResourceNoAssetScan(raw, baseURL, resources) ==
    resolveFrom(1, <<1, 2, 3, 4, 5, 6, 8>>, raw, baseURL, resources)
resolveResource(raw, baseURL, resources) ==
    resolveFrom(1, <<1, 2, 3, 4, 5, 6, 7, 8>>, raw, baseURL, resources)

(***************************************************************************)
(* Documents: goquery's tree of html.Node.  A node is an element with its   *)
(* attributes (name -> value) and children, or a text node ("#text").  A    *)
(* document is the sequence of the children of <body>.                      *)
(***************************************************************************)
El(tag, attrs, kids) == [tag |-> tag, attrs |-> attrs, kids |-> kids]
Text(t) == El("#text", [data |-> <<t>>], <<>>)
NoAttrs == <<>>

\* Selection.Attr: exists, and the value
HasAttr(n, a) == a \in DOMAIN n.attrs
Attr(n, a) == IF HasAttr(n, a) THEN n.attrs[a] ELSE <<>>
\* Selection.SetAttr, Selection.RemoveAttr
SetAttr(n, a, v) == [n EXCEPT !.attrs = (a :> v) @@ n.attrs]
RemoveAttrs(n, as) == [n EXCEPT !.attrs = [k \in (DOMAIN n.attrs) \ as |-> n.attrs[k]]]

\* Selection.Find(tags) below a sequence of nodes, in document order
RECURSIVE FindAll(_, _)
FindAll(forest, tags) ==
    IF forest = <<>> THEN <<>>
    ELSE LET n == Head(forest)
         IN (IF n.tag \in tags THEN <<n>> ELSE <<>>)
            \o FindAll(n.kids, tags) \o FindAll(Tail(forest), tags)

\* Selection.Find(tags).Remove()
RECURSIVE RemoveAll(_, _)
RemoveAll(forest, tags) ==
    IF forest = <<>> THEN <<>>
    ELSE LET n == Head(forest)
         IN (IF n.tag \in tags THEN <<>> ELSE <<[n EXCEPT !.kids = RemoveAll(n.kids, tags)]>>)
            \o RemoveAll(Tail(forest), tags)

\* the text of a document outside the elements of some tags, in order
RECURSIVE TextOutside(_, _)
TextOutside(forest, tags) ==
    IF forest = <<>> THEN <<>>
    ELSE LET n == Head(forest)
         IN (IF n.tag = "#text" THEN n.attrs.data
             ELSE IF n.tag \in tags THEN <<>>
             ELSE TextOutside(n.kids, tags))
            \o TextOutside(Tail(forest), tags)

(***************************************************************************)
(* Candidate extraction: postprocessing/images.go                          *)
(***************************************************************************)
\* html.UnescapeString, and the unescaping of an attribute value by the HTML
\* parser, for the entities the documents and html.EscapeString use
RECURSIVE UnescapeString(_)
UnescapeString(s) ==
    IF s = <<>> THEN <<>>
    ELSE <<CASE Head(s) \in {"&quot;", "&#34;"} -> "\""
             [] Head(s) = "&amp;" -> "&"
             [] Head(s) = "&#39;" -> "'"
             [] Head(s) = "&lt;" -> "<"
             [] Head(s) = "&gt;" -> ">"
             [] OTHER -> Head(s)>> \o UnescapeString(Tail(s))

\* html.EscapeString
RECURSIVE EscapeString(_)
EscapeString(s) ==
    IF s = <<>> THEN <<>>
    ELSE <<CASE Head(s) = "\"" -> "&#34;"
             [] Head(s) = "&" -> "&amp;"
             [] Head(s) = "'" -> "&#39;"
             [] Head(s) = "<" -> "&lt;"
             [] Head(s) = ">" -> "&gt;"
             [] OTHER -> Head(s)>> \o EscapeString(Tail(s))

\* A JSON string literal starting at position i of s: [ok, val, next]
JSONString(s, i) ==
    LET closing == {j \in (i + 1)..Len(s) : s[j] = "\""}
        j == CHOOSE k \in closing : \A m \in closing : k <= m
    IN IF i > Len(s) \/ s[i] # "\"" \/ closing = {}
       THEN [ok |-> FALSE, val |-> <<>>, next |-> i]
       ELSE [ok |-> TRUE, val |-> SubSeq(s, i + 1, j - 1), next |-> j + 1]

\* A JSON value starting at position i of s: a string literal, a number
\* (one token), or null: [ok, kind, val, next]
JSONValue(s, i) ==
    LET Str(lit) == [ok |-> lit.ok, kind |-> "string", val |-> lit.val, next |-> lit.next]
    IN IF i <= Len(s) /\ s[i] = "5" THEN [ok |-> TRUE, kind |-> "number", val |-> <<>>, next |-> i + 1]
       ELSE IF i <= Len(s) /\ s[i] = "null"
       THEN [ok |-> TRUE, kind |-> "null", val |-> <<>>, next |-> i + 1]
       ELSE Str(JSONString(s, i))

\* The members of a JSON object from position i on, up to the closing brace:
\* json.Unmarshal into the struct {Src, SrcNoWatermark}.  A string sets the
\* field, null leaves it, a number for a string field is an
\* UnmarshalTypeError, which Unmarshal returns after decoding the rest.
RECURSIVE JSONMembers(_, _, _)
JSONMembers(s, i, acc) ==
    LET k == JSONString(s, i)
        v == JSONValue(s, k.next + 1)
        got == IF k.val \notin {<<"src">>, <<"srcNoWatermark">>} \/ v.kind = "null" THEN acc
               ELSE IF v.kind # "string" THEN [acc EXCEPT !.ok = FALSE]
               ELSE IF k.val = <<"src">> THEN [acc EXCEPT !.Src = v.val]
               ELSE [acc EXCEPT !.SrcNoWatermark = v.val]
    IN IF ~k.ok \/ k.next > Len(s) \/ s[k.next] # ":" \/ ~v.ok \/ v.next > Len(s)
         THEN [acc EXCEPT !.ok = FALSE]
       ELSE IF s[v.next] = "}" THEN (IF v.next = Len(s) THEN got ELSE [acc EXCEPT !.ok = FALSE])
       ELSE IF s[v.next] = "," THEN JSONMembers(s, v.next + 1, got)
       ELSE [acc EXCEPT !.ok = FALSE]

JSONUnmarshal(s) ==
    LET zero == [ok |-> TRUE, Src |-> <<>>, SrcNoWatermark |-> <<>>]
    IN IF Len(s) < 2 \/ s[1] # "{" THEN [zero EXCEPT !.ok = FALSE]
       ELSE IF s = <<"{", "}">> THEN zero
       ELSE JSONMembers(s, 2, zero)

\* extractURLFromDataAttrs that prefers src
extractURLFromDataAttrsSrcFirst(dataAttr) ==
    LET attrs == JSONUnmarshal(UnescapeString(dataAttr))
    IN IF ~attrs.ok THEN <<>>
       ELSE IF attrs.Src # <<>> THEN attrs.Src
       ELSE attrs.SrcNoWatermark
\* extractURLFromDataAttrs
extractURLFromDataAttrs(dataAttr) ==
    LET attrs == JSONUnmarshal(UnescapeString(dataAttr))
    IN IF ~attrs.ok THEN <<>>
       ELSE IF attrs.SrcNoWatermark # <<>> THEN attrs.SrcNoWatermark
       ELSE attrs.Src

\* a width descriptor: strings.HasSuffix(field, "w") and fmt.Sscanf(field, "%dw")
EndsWithW(field) == field \in {<<"480w">>, <<"800w">>, <<"w">>}
ScanWidth(field) ==
    CASE field = <<"480w">> -> 480
      [] field = <<"800w">> -> 800
      [] OTHER -> 0

\* the loop of pickBestFromSrcset over the parts from part i on
RECURSIVE pickBestLoop(_, _, _, _)
pickBestLoop(parts, i, best, bestW) ==
    IF i > Len(parts) THEN best
    ELSE LET fields == Fields(TrimSpace(parts[i]))
             u == fields[1]
             w == IF Len(fields) > 1 /\ EndsWithW(fields[2]) THEN ScanWidth(fields[2]) ELSE 0
             best1 == IF w > bestW THEN u ELSE best
             bestW1 == IF w > bestW THEN w ELSE bestW
         IN IF Len(fields) = 0 THEN pickBestLoop(parts, i + 1, best, bestW)
            ELSE pickBestLoop(parts, i + 1, IF best1 = <<>> THEN u ELSE best1, bestW1)

\* pickBestFromSrcset
pickBestFromSrcset(srcset) == pickBestLoop(SplitOn(srcset, ","), 1, <<>>, -1)

(***************************************************************************)
(* Resolution                                                              *)
(***************************************************************************)
\* What ResolveImage returns: (dataURL, found, err)
Outcome(url, ok, e) == [url |-> url, ok |-> ok, err |-> e]

\* The image bytes of the documents and resolvers at hand
ImgA == Bytes("jpeg", 600, 400, TRUE, 9)
ImgB == Bytes("png", 100, 50, TRUE, 7)
ImgC == Bytes("webp", 500, 500, TRUE, 8)
ImgInline == Bytes("gif", 20, 10, TRUE, 3)
ImgCut == Bytes("png", 10, 10, FALSE, 2)
NotAnImage == Bytes("none", 0, 0, FALSE, 5)
SourceBytes == {ImgA, ImgB, ImgC, ImgInline, ImgCut, NotAnImage}
KnownBytes == SourceBytes \cup {resizeImageBytes(b, maxImageDimension).data : b \in SourceBytes}

\* base64.StdEncoding.DecodeString: the bytes a payload spells, among KnownBytes
Base64Decode(payload) ==
    LET Decoded(known) ==
          IF Len(payload) = 1 /\ \E b \in known : Base64Encode(b) = payload[1]
          THEN [err |-> "", data |-> CHOOSE b \in known : Base64Encode(b) = payload[1]]
          ELSE [err |-> "failed to decode base64 data", data |-> NoBytes]
    IN IF payload = <<>> THEN [err |-> "", data |-> NoBytes] ELSE Decoded(KnownBytes)

\* parseBase64DataURL
parseBase64DataURL(dataURL) ==
    LET Parsed(parts) ==
          IF Len(parts) # 2 THEN [err |-> "invalid base64 data URL format", data |-> NoBytes]
          ELSE Base64Decode(parts[2])
    IN Parsed(SplitN2(dataURL, ","))

\* processBase64ImageData
processBase64ImageData(src) ==
    LET Processed(p) ==
          IF p.err # "" THEN [err |-> p.err, url |-> <<>>, data |-> NoBytes, format |-> ""]
          ELSE processImageData(p.data)
    IN Processed(parseBase64DataURL(src))

\* A resolver: nil, or the outcome it has for each source string ("other"
\* for the strings outside its table)
ResolveImage(r, src) == IF src \in DOMAIN r.out THEN r.out[src] ELSE r.other

\* what one pass did to one element: the element, the candidates built for
\* it, those tried, those handed to ResolveImage, whether an image was
\* resolved for it, and the nodes put in its place
Entry(pass, node, cands, tried, called, resolved, out, counted) ==
    [pass |-> pass, node |-> node, cands |-> cands, tried |-> tried, called |-> called,
     resolved |-> resolved, out |-> out, counted |-> counted]

NoPass == [out |-> <<>>, log |-> <<>>, count |-> 0]

\* tryResolve of processPictureElements, and the body of the candidate loop of
\* processImageElements: [url, ok, called]
tryResolve(r, raw) ==
    LET Inline(d) == [url |-> d.url, ok |-> d.err = "", called |-> FALSE]
        Remote(o) ==
          IF o.err # "" \/ ~o.ok THEN [url |-> <<>>, ok |-> FALSE, called |-> TRUE]
          ELSE [url |-> o.url, ok |-> TRUE, called |-> TRUE]
    IN IF raw = <<>> THEN [url |-> <<>>, ok |-> FALSE, called |-> FALSE]
       ELSE IF HasPrefix(raw, <<"data:", "image/">>) THEN Inline(processBase64ImageData(raw))
       ELSE IF r.isNil THEN [url |-> <<>>, ok |-> FALSE, called |-> FALSE]
       ELSE Remote(ResolveImage(r, raw))

\* the candidate loop: candidates i.. are tried in order until one resolves
RECURSIVE tryCandidates(_, _, _)
tryCandidates(r, cands, i) ==
    LET Step(t) ==
          IF t.ok
          THEN [resolved |-> TRUE, url |-> t.url, tried |-> <<cands[i]>>,
                called |-> IF t.called THEN <<cands[i]>> ELSE <<>>]
          ELSE [tryCandidates(r, cands, i + 1) EXCEPT
                  !.tried = <<cands[i]>> \o @,
                  !.called = (IF t.called THEN <<cands[i]>> ELSE <<>>) \o @]
    IN IF i > Len(cands) THEN [resolved |-> FALSE, url |-> <<>>, tried |-> <<>>, called |-> <<>>]
       ELSE Step(tryResolve(r, cands[i]))

\* if u != "" { candidates = append(candidates, u) }
Candidate(u) == IF u = <<>> THEN <<>> ELSE <<u>>

\* the candidates of the nested <img> of a <picture>
imgCandidates(img) ==
    (IF HasAttr(img, "data-attrs")
     THEN Candidate(extractURLFromDataAttrs(Attr(img, "data-attrs"))) ELSE <<>>)
    \o (IF HasAttr(img, "srcset") /\ TrimSpace(Attr(img, "srcset")) # <<>>
        THEN Candidate(pickBestFromSrcset(Attr(img, "srcset"))) ELSE <<>>)
    \o (IF HasAttr(img, "src") THEN Candidate(Attr(img, "src")) ELSE <<>>)

\* the candidates of the <source> elements of a <picture>, in document order
RECURSIVE sourceCandidates(_)
sourceCandidates(sources) ==
    LET Of(s) ==
          (IF HasAttr(s, "srcset") /\ Attr(s, "srcset") # <<>>
           THEN Candidate(pickBestFromSrcset(Attr(s, "srcset"))) ELSE <<>>)
          \o (IF HasAttr(s, "src") THEN Candidate(Attr(s, "src")) ELSE <<>>)
    IN IF sources = <<>> THEN <<>>
       ELSE Of(Head(sources)) \o sourceCandidates(Tail(sources))

pictureCandidatesSourcesFirst(p) ==
    LET FromImg(imgs) == IF imgs # <<>> THEN imgCandidates(Head(imgs)) ELSE <<>>
    IN sourceCandidates(FindAll(p.kids, {"source"})) \o FromImg(FindAll(p.kids, {"img"}))
pictureCandidates(p) ==
    LET FromImg(imgs) == IF imgs # <<>> THEN imgCandidates(Head(imgs)) ELSE <<>>
    IN FromImg(FindAll(p.kids, {"img"})) \o sourceCandidates(FindAll(p.kids, {"source"}))

\* the body of the Each of processPictureElements for one <picture>; the
\* replacement is the parse of <img src="..." alt="..." data-processed="1" />
collapsePicture(r, p) ==
    LET Alt(imgs) == IF imgs # <<>> THEN Attr(Head(imgs), "alt") ELSE <<>>
        Repl(alt, url) ==
          El("img",
             (IF alt # <<>> THEN [alt |-> UnescapeString(EscapeString(alt))] ELSE NoAttrs)
             @@ ("data-processed" :> <<"1">>) @@ [src |-> UnescapeString(url)],
             <<>>)
        Tried(cands, t, alt) ==
          IF ~t.resolved THEN Entry("picture", p, cands, t.tried, t.called, FALSE, <<>>, FALSE)
          ELSE Entry("picture", p, cands, t.tried, t.called, TRUE, <<Repl(alt, t.url)>>, TRUE)
        With(cands) ==
          IF cands = <<>> THEN Entry("picture", p, cands, <<>>, <<>>, FALSE, <<>>, FALSE)
          ELSE Tried(cands, tryCandidates(r, cands, 1), Alt(FindAll(p.kids, {"img"})))
    IN With(pictureCandidates(p))

\* what a pass over a forest adds up to, from the entry of its first element
\* (none when the pass does not handle it), the pass below it and the pass
\* over the rest
Handled(e, inner, rest) ==
    [out |-> e.out \o rest.out,
     log |-> <<e>> \o inner.log \o rest.log,
     count |-> (IF e.counted THEN 1 ELSE 0) + inner.count + rest.count]
Passed(n, inner, rest) ==
    [out |-> <<[n EXCEPT !.kids = inner.out]>> \o rest.out,
     log |-> inner.log \o rest.log,
     count |-> inner.count + rest.count]

\* processPictureElements: every <picture> found at the start, in document
\* order.  A <picture> below another one is visited after its ancestor has
\* been replaced or removed: its own replacement does not reach the document,
\* its resolver calls and its count do.
RECURSIVE processPictureElements(_, _)
processPictureElements(r, forest) ==
    IF forest = <<>> THEN NoPass
    ELSE IF Head(forest).tag = "picture"
      THEN Handled(collapsePicture(r, Head(forest)),
                   processPictureElements(r, Head(forest).kids),
                   processPictureElements(r, Tail(forest)))
    ELSE Passed(Head(forest),
                processPictureElements(r, Head(forest).kids),
                processPictureElements(r, Tail(forest)))

\* removeImageAttributes
removeImageAttributes(s) ==
    RemoveAttrs(s, {"srcset", "sizes", "loading", "width", "height", "style", "class",
                    "data-attrs", "data-orig-size", "data-medium-file", "data-large-file"})

\* the body of the Each of processImageElements for one <img>
processImageNoSkip(r, s) ==
    LET Tried(cands, t) ==
          IF ~t.resolved THEN Entry("img", s, cands, t.tried, t.called, FALSE, <<>>, FALSE)
          ELSE Entry("img", s, cands, t.tried, t.called, TRUE,
                     <<removeImageAttributes(SetAttr(s, "src", t.url))>>, TRUE)
        With(cands) ==
          IF cands = <<>> THEN Entry("img", s, cands, <<>>, <<>>, FALSE, <<>>, FALSE)
          ELSE Tried(cands, tryCandidates(r, cands, 1))
    IN With((IF HasAttr(s, "data-attrs")
             THEN Candidate(extractURLFromDataAttrs(Attr(s, "data-attrs"))) ELSE <<>>)
            \o (IF HasAttr(s, "src") THEN Candidate(Attr(s, "src")) ELSE <<>>))
processImage(r, s) ==
    LET Tried(cands, t) ==
          IF ~t.resolved THEN Entry("img", s, cands, t.tried, t.called, FALSE, <<>>, FALSE)
          ELSE Entry("img", s, cands, t.tried, t.called, TRUE,
                     <<removeImageAttributes(SetAttr(s, "src", t.url))>>, TRUE)
        With(cands) ==
          IF cands = <<>> THEN Entry("img", s, cands, <<>>, <<>>, FALSE, <<>>, FALSE)
          ELSE Tried(cands, tryCandidates(r, cands, 1))
    IN IF HasAttr(s, "data-processed") /\ Attr(s, "data-processed") = <<"1">>
         THEN Entry("img", s, <<>>, <<>>, <<>>, FALSE,
                    <<RemoveAttrs(removeImageAttributes(s), {"data-processed"})>>, FALSE)
       ELSE With((IF HasAttr(s, "data-attrs")
                  THEN Candidate(extractURLFromDataAttrs(Attr(s, "data-attrs"))) ELSE <<>>)
                 \o (IF HasAttr(s, "src") THEN Candidate(Attr(s, "src")) ELSE <<>>))

\* processImageElements (an <img> has no children)
RECURSIVE processImageElements(_, _)
processImageElements(r, forest) ==
    IF forest = <<>> THEN NoPass
    ELSE IF Head(forest).tag = "img"
      THEN Handled(processImage(r, Head(forest)), NoPass, processImageElements(r, Tail(forest)))
    ELSE Passed(Head(forest),
                processImageElements(r, Head(forest).kids),
                processImageElements(r, Tail(forest)))

\* the body of the Each of processLoneSourceElements for one <source> that is
\* not below a <picture>
processLoneSource(r, s) ==
    LET Replaced(firstURL, called, e, dataURL, resolved) ==
          IF e = ""
          THEN Entry("source", s, <<firstURL>>, <<firstURL>>, called, resolved,
                     <<El("img", [src |-> UnescapeString(dataURL)], <<>>)>>, TRUE)
          ELSE Entry("source", s, <<firstURL>>, <<firstURL>>, called, resolved, <<>>, FALSE)
        Inline(firstURL, d) == Replaced(firstURL, <<>>, d.err, d.url, d.err = "")
        Remote(firstURL, o) == Replaced(firstURL, <<firstURL>>, o.err, o.url, o.ok /\ o.err = "")
        First(firstURL) ==
          IF HasPrefix(firstURL, <<"data:", "image/">>)
            THEN Inline(firstURL, processBase64ImageData(firstURL))
          ELSE IF ~r.isNil THEN Remote(firstURL, ResolveImage(r, firstURL))
          ELSE Entry("source", s, <<firstURL>>, <<>>, <<>>, FALSE, <<>>, FALSE)
        With(srcset) ==
          IF TrimSpace(srcset) = <<>> THEN Entry("source", s, <<>>, <<>>, <<>>, FALSE, <<>>, FALSE)
          ELSE First(TrimSpace(SplitOn(SplitOn(srcset, ",")[1], " ")[1]))
    IN With(IF HasAttr(s, "srcset") /\ TrimSpace(Attr(s, "srcset")) # <<>>
            THEN Attr(s, "srcset") ELSE Attr(s, "src"))

\* processLoneSourceElements (a <source> has no children); a <source> below a
\* <picture> is left alone
RECURSIVE processLoneSourceElements(_, _, _)
processLoneSourceElements(r, forest, inPicture) ==
    IF forest = <<>> THEN NoPass
    ELSE IF Head(forest).tag = "source" /\ ~inPicture
      THEN Handled(processLoneSource(r, Head(forest)), NoPass,
                   processLoneSourceElements(r, Tail(forest), inPicture))
    ELSE Passed(Head(forest),
                processLoneSourceElements(r, Head(forest).kids,
                                          inPicture \/ Head(forest).tag = "picture"),
                processLoneSourceElements(r, Tail(forest), inPicture))

\* contentDoc.Find("figure").Each: a <figure> without an <img> below it goes
RECURSIVE removeEmptyFigures(_)
removeEmptyFigures(forest) ==
    IF forest = <<>> THEN <<>>
    ELSE LET n == Head(forest)
         IN (IF n.tag = "figure" /\ FindAll(n.kids, {"img"}) = <<>> THEN <<>>
             ELSE <<[n EXCEPT !.kids = removeEmptyFigures(n.kids)]>>)
            \o removeEmptyFigures(Tail(forest))

\* contentDoc.Find("a").Each: every <a> found at the start is replaced by the
\* parse of its inner HTML; an <a> below another <a> comes back with that
\* parse, as a new node the loop does not visit
RECURSIVE unwrapAnchors(_)
unwrapAnchors(forest) ==
    IF forest = <<>> THEN <<>>
    ELSE LET n == Head(forest)
         IN (IF n.tag = "a" THEN n.kids
             ELSE <<[n EXCEPT !.kids = unwrapAnchors(n.kids)]>>)
            \o unwrapAnchors(Tail(forest))

\* the ResolveImage calls of a pass, in order
RECURSIVE CallsOf(_)
CallsOf(log) == IF log = <<>> THEN <<>> ELSE Head(log).called \o CallsOf(Tail(log))

(***************************************************************************)
(* The rewriter at rest, for the specifications that do not run it          *)
(***************************************************************************)
RewriterIdle ==
    /\ pc = "idle" /\ input = <<>> /\ doc = <<>> /\ excludeImages = FALSE
    /\ resolver = <<>> /\ imageCount = 0 /\ calls = <<>> /\ passlog = <<>> /\ err = ""

(***************************************************************************)
(* Specification of the image transform: processImageData on every image   *)
(* of a sample of sizes around and beyond maxImageDimension                 *)
(***************************************************************************)
MaxSide == 1000
NearSmall == 4
NearBound == 4
Stride == 125

Sides == {s \in 1..MaxSide : \/ s <= NearSmall
                            \/ Abs(s - maxImageDimension) <= NearBound
                            \/ s % Stride = 0}

TInputs ==
    {Bytes(f, w, h, ok, w * h) : f \in DecodableFormats, w \in Sides, h \in Sides, ok \in BOOLEAN}
    \cup {Bytes("none", 0, 0, FALSE, n) : n \in {0, 1}}

NoOutput == [err |-> "", url |-> <<>>, data |-> NoBytes, format |-> ""]

TransformIdle == tpc = "idle" /\ tdata = NoBytes /\ tout = NoOutput

ProcessImageData ==
    /\ tpc = "start"
    /\ tout' = processImageData(tdata)
    /\ tpc' = "done"
    /\ UNCHANGED <<tdata, lvars, dvars, nvars, rvars, ivars, svars, cvars, uvars>>

(***************************************************************************)
(* Specification of the archive lookup: resolveResource on every request    *)
(* of Requests against every table of at most MaxTable resources            *)
(***************************************************************************)
MaxTable == 3

Png(w, h, n) == Bytes("png", w, h, TRUE, n)
ImagePng == <<"image/", "png">>
HostH == <<"https:", "//", "h">>
DirAB == <<"/", "a", "/", "b">>

\* /a/b/jcr:content/i.p-8x6.p on host h
StoredSized == Resource(HostH \o DirAB \o <<"/", "jcr:content", "/", "i", ".", "p", "-", "8", "x", "6", ".", "p">>,
                        ImagePng, Png(8, 6, 4))
\* /a/b/_jcr_content/i.p on host h
StoredUnderscore == Resource(HostH \o DirAB \o <<"/", "_jcr_content", "/", "i", ".", "p">>,
                             ImagePng, Png(2, 1, 2))
\* /a/b/jcr:content/i.p on host h
StoredColon == Resource(HostH \o DirAB \o <<"/", "jcr:content", "/", "i", ".", "p">>,
                        ImagePng, Png(3, 1, 3))
\* /a/b/c.p on host g, as long as StoredSized
StoredOtherHost == Resource(<<"https:", "//", "g">> \o DirAB \o <<"/", "c", ".", "p">>, ImagePng, Png(2, 2, 4))
\* stored under a relative URL, without a MIME type
StoredRelative == Resource(DirAB \o <<"/", "_jcr_content", "/", "i", ".", "p">>, <<>>, Png(1, 1, 1))
\* a style sheet, the longest resource
StoredCSS == Resource(HostH \o DirAB \o <<"/", "s", ".", "c">>, <<"text/", "css">>,
                      Bytes("none", 0, 0, FALSE, 9))
\* an image resource without bytes
StoredEmpty == Resource(HostH \o DirAB \o <<"/", "jcr:content", "/", "e", ".", "p">>,
                        ImagePng, Bytes("none", 0, 0, FALSE, 0))
\* stored under a string url.Parse rejects
StoredUnparsable == Resource(<<"%">>, ImagePng, Png(1, 2, 2))

Stored == {StoredSized, StoredUnderscore, StoredColon, StoredOtherHost, StoredRelative,
           StoredCSS, StoredEmpty, StoredUnparsable}

\* the table appendResources builds from a set of resources: keyed by URL
Tables ==
    {[k \in {r.URL : r \in rs} |-> CHOOSE r \in rs : r.URL = k] :
        rs \in {x \in SUBSET Stored : Cardinality(x) <= MaxTable}}

ReqUnderscore == DirAB \o <<"/", "_jcr_content", "/", "i", ".", "p">>
ReqSized == DirAB \o <<"/", "jcr:content", "/", "i", "-", "8", "x", "6", ".", "p">>
ReqAbsolute == HostH \o DirAB \o <<"/", "jcr:content", "/", "i", ".", "p">>
ReqRelative == <<"c", ".", "p">>
ReqUnparsable == <<"%">>
ReqNowhere == <<"/", "z", "/", "n", ".", "p">>

Requests == {ReqUnderscore, ReqSized, ReqAbsolute, ReqRelative, ReqUnparsable, ReqNowhere}

BaseH == URL("https", "h", DirAB \o <<"/", "x">>)
Bases == {BaseH, NoURL}

LookupIdle == lpc = "idle" /\ lraw = <<>> /\ lbase = NoURL /\ ltable = <<>> /\ lres = NotFound

ResolveResource ==
    /\ lpc = "start"
    /\ \E r \in resolveResource(lraw, lbase, ltable) : lres' = r
    /\ lpc' = "done"
    /\ UNCHANGED <<lraw, lbase, ltable, tvars, dvars, nvars, rvars, ivars, svars, cvars, uvars>>

(***************************************************************************)
(* Specification of one ResolveImage call: on the network resolver, on the  *)
(* archive resolver, and on the archive resolver with the network resolver  *)
(* as its fallback.  A fetch is two steps, the request going out and         *)
(* client.Do returning, so that a server that never answers is a state.     *)
(***************************************************************************)
\* http.DetectContentType: the image formats by their magic numbers
DetectContentType(data) ==
    IF data.format \in DecodableFormats THEN <<"image/", data.format>>
    ELSE IF data.n = 0 THEN <<"text/", "plain; charset=utf-8">>
    ELSE <<"application/", "octet-stream">>

DataURL(url, ok) == [url |-> url, ok |-> ok]
\* resourceToDataURL without the test of the MIME type
resourceToDataURLAnyType(res) ==
    LET Encoded(mimeType) ==
          DataURL(<<"data:">> \o mimeType \o <<";base64", ",", Base64Encode(res.Data)>>, TRUE)
    IN Encoded(IF res.MIMEType = <<>> THEN DetectContentType(res.Data) ELSE res.MIMEType)
resourceToDataURL(res) ==
    LET Encoded(mimeType) ==
          IF ~HasPrefix(mimeType, <<"image/">>) THEN DataURL(<<>>, FALSE)
          ELSE DataURL(<<"data:">> \o mimeType \o <<";base64", ",", Base64Encode(res.Data)>>, TRUE)
    IN Encoded(IF res.MIMEType = <<>> THEN DetectContentType(res.Data) ELSE res.MIMEType)

\* ResolveImageDataURL: its results, each with the lookup result it came from
ResolveImageDataURL(raw, baseURL, resources) ==
    LET Of(hit) == IF ~hit.found THEN [url |-> <<>>, ok |-> FALSE, hit |-> hit]
                   ELSE [url |-> resourceToDataURL(hit.res).url,
                         ok |-> resourceToDataURL(hit.res).ok, hit |-> hit]
    IN {Of(hit) : hit \in resolveResource(raw, baseURL, resources)}

\* the three values a resolver returns, from the result of the transform
Resolved3(p) == IF p.err # "" THEN Outcome(<<>>, FALSE, p.err) ELSE Outcome(p.url, TRUE, "")
NoOutcome == Outcome(<<>>, FALSE, "")

\* the client: nil (downloadImage then builds one from the proxy transport,
\* with no Timeout), or one the caller supplies, with or without a Timeout
Client(isNil, timeout) == [nil |-> isNil, timeout |-> timeout]
DefaultClient == Client(FALSE, FALSE)
Clients == {Client(TRUE, FALSE), Client(FALSE, FALSE), Client(FALSE, TRUE)}
ClientUsed(client) == IF client.nil THEN DefaultClient ELSE client

\* the remote server: answers 200 with a body, answers another status,
\* refuses the connection, or never answers
Server(mode, body) == [mode |-> mode, body |-> body]
Servers == {Server("ok", ImgA), Server("ok", ImgCut), Server("ok", NotAnImage),
            Server("status", NoBytes), Server("refuse", NoBytes), Server("hang", NoBytes)}

NetworkResolver == [kind |-> "network", fallback |-> FALSE]
ArchiveResolver(fallback) == [kind |-> "archive", fallback |-> fallback]
ResolverKinds == {NetworkResolver, ArchiveResolver(FALSE), ArchiveResolver(TRUE)}

KeyU == <<"https:", "//", "h", "/", "a", "/", "b", "/", "i", ".", "p">>
SrcU == <<"i", ".", "p">>
SrcV == <<"/", "z", "/", "n", ".", "p">>
SrcData == imageToBase64DataURL(ImgInline, <<"image/", "gif">>)
SrcUnparsable == <<"%">>
Sources == {SrcU, SrcV, SrcData, SrcUnparsable}
\* the resource the table holds under KeyU: an image, an image without a
\* stored type, an image stored as a style sheet, a style sheet, bytes that
\* are no image stored as an image, and such bytes without a stored type
HeldAtU ==
    {Resource(KeyU, <<"image/", "png">>, ImgB), Resource(KeyU, <<>>, ImgA),
     Resource(KeyU, <<"text/", "css">>, ImgB), Resource(KeyU, <<"text/", "css">>, NotAnImage),
     Resource(KeyU, <<"image/", "png">>, NotAnImage), Resource(KeyU, <<>>, NotAnImage)}
ResolverTables == {(KeyU :> res) : res \in HeldAtU} \cup {<<>>}

ResolveIdle ==
    /\ npc = "idle" /\ nresolver = NetworkResolver /\ nclient = DefaultClient
    /\ nsrc = <<>> /\ nbase = NoURL /\ ntable = <<>> /\ nserver = Server("hang", NoBytes)
    /\ nhit = NotFound /\ nreqs = <<>> /\ nfallback = 0 /\ nfbout = NoOutcome
    /\ nout = NoOutcome

\* the call returns o (through the archive resolver when it is the fallback
\* that returns)
Return(o) ==
    /\ nout' = o
    /\ nfbout' = IF nfallback > 0 THEN o ELSE nfbout
    /\ npc' = "done"

\* WebarchiveImageResolver.ResolveImage that reports a miss without calling
\* the fallback
WebarchiveResolveImageNoFallback ==
    /\ npc = "start" /\ nresolver.kind = "archive"
    /\ \E d \in ResolveImageDataURL(nsrc, nbase, ntable) :
         /\ nhit' = d.hit
         /\ IF ~d.ok THEN Return(NoOutcome)
            ELSE Return(Resolved3(processBase64ImageData(d.url)))
    /\ UNCHANGED <<nresolver, nclient, nsrc, nbase, ntable, nserver, nreqs, nfallback>>
    /\ UNCHANGED <<tvars, lvars, dvars, rvars, ivars, svars, cvars, uvars>>

\* WebarchiveImageResolver.ResolveImage, up to its return or to the call of
\* the fallback
WebarchiveResolveImage ==
    /\ npc = "start" /\ nresolver.kind = "archive"
    /\ \E d \in ResolveImageDataURL(nsrc, nbase, ntable) :
         /\ nhit' = d.hit
         /\ IF ~d.ok
            THEN IF nresolver.fallback
                 THEN /\ nfallback' = nfallback + 1
                      /\ npc' = "fallback"
                      /\ UNCHANGED <<nout, nfbout>>
                 ELSE Return(NoOutcome) /\ UNCHANGED nfallback
            ELSE Return(Resolved3(processBase64ImageData(d.url))) /\ UNCHANGED nfallback
    /\ UNCHANGED <<nresolver, nclient, nsrc, nbase, ntable, nserver, nreqs>>
    /\ UNCHANGED <<tvars, lvars, dvars, rvars, ivars, svars, cvars, uvars>>

\* the URL downloadImage requests
RequestURL(raw, baseURL) ==
    IF IsAbs(ParseURL(raw)) THEN URLString(ParseURL(raw))
    ELSE URLString(ResolveReference(baseURL, ParseURL(raw)))

\* NetworkImageResolver.ResolveImage into downloadImage, up to client.Do: the
\* transport refuses a URL whose scheme is not http or https (a data: URI
\* among them) before anything is sent
NetworkResolveImage ==
    /\ \/ npc = "start" /\ nresolver.kind = "network"
       \/ npc = "fallback"
    /\ IF ParseFails(nsrc)
       THEN Return(Outcome(<<>>, FALSE, "invalid image URL")) /\ UNCHANGED nreqs
       ELSE IF nsrc # <<>> /\ Head(nsrc) = "data:"
       THEN /\ Return(Outcome(<<>>, FALSE, "failed to download image: unsupported protocol scheme"))
            /\ UNCHANGED nreqs
       ELSE /\ nreqs' = Append(nreqs, RequestURL(nsrc, nbase))
            /\ npc' = "fetching"
            /\ UNCHANGED <<nout, nfbout>>
    /\ UNCHANGED <<nresolver, nclient, nsrc, nbase, ntable, nserver, nhit, nfallback>>
    /\ UNCHANGED <<tvars, lvars, dvars, rvars, ivars, svars, cvars, uvars>>

\* client.Do returns with the server's answer, and downloadImage and
\* processImageData run to the end
ClientDoReturns ==
    /\ npc = "fetching" /\ nserver.mode # "hang"
    /\ Return(IF nserver.mode = "refuse" THEN Outcome(<<>>, FALSE, "failed to download image")
              ELSE IF nserver.mode = "status"
              THEN Outcome(<<>>, FALSE, "image download failed with status")
              ELSE Resolved3(processImageData(nserver.body)))
    /\ UNCHANGED <<nresolver, nclient, nsrc, nbase, ntable, nserver, nhit, nreqs, nfallback>>
    /\ UNCHANGED <<tvars, lvars, dvars, rvars, ivars, svars, cvars, uvars>>

\* client.Do returns because the client's Timeout ran out: only a client
\* that has one
ClientTimeout ==
    /\ npc = "fetching" /\ ClientUsed(nclient).timeout
    /\ Return(Outcome(<<>>, FALSE, "failed to download image: Client.Timeout exceeded"))
    /\ UNCHANGED <<nresolver, nclient, nsrc, nbase, ntable, nserver, nhit, nreqs, nfallback>>
    /\ UNCHANGED <<tvars, lvars, dvars, rvars, ivars, svars, cvars, uvars>>

(***************************************************************************)
(* Specification of the archive decoding: DecodeFile on every archive that  *)
(* holds at most MaxItems resources spread over its lists, with two         *)
(* sub-frame archives of which the first holds a sub-frame of its own       *)
(***************************************************************************)
MaxItems == 3

Archive(main, sub, webMain, webSub, frames) ==
    [MainResource |-> main, Subresources |-> sub, WebMainResource |-> webMain,
     WebSubresources |-> webSub, WebSubframeArchives |-> frames]
NoArchive == Archive(NoResource, <<>>, NoResource, <<>>, <<>>)
Plist(ar) == [plist |-> TRUE, ar |-> ar]
NotAPlist == [plist |-> FALSE, ar |-> NoArchive]

\* appendResources, with a later resource overwriting an earlier one
appendResourcesLastWins(dest, items) ==
    LET Put(d, i) == IF items[i].URL = <<>> THEN d ELSE (items[i].URL :> items[i]) @@ d
        RECURSIVE From(_, _)
        From(d, i) == IF i > Len(items) THEN d ELSE From(Put(d, i), i + 1)
    IN From(dest, 1)
appendResources(dest, items) ==
    LET Put(d, i) == IF items[i].URL = <<>> \/ items[i].URL \in DOMAIN d THEN d
                     ELSE (items[i].URL :> items[i]) @@ d
        RECURSIVE From(_, _)
        From(d, i) == IF i > Len(items) THEN d ELSE From(Put(d, i), i + 1)
    IN From(dest, 1)

\* the loop of DecodeFile over ar.WebSubframeArchives: the two lists of each
\* sub-frame archive, and nothing of what that archive holds further down
RECURSIVE appendSubframes(_, _)
appendSubframes(dest, subs) ==
    IF subs = <<>> THEN dest
    ELSE appendSubframes(
           appendResources(appendResources(dest, Head(subs).Subresources),
                           Head(subs).WebSubresources),
           Tail(subs))

DecodeResult(data, baseURL, resources, e) ==
    [data |-> data, baseURL |-> baseURL, resources |-> resources, err |-> e]
NoDecodeResult == DecodeResult(NoBytes, NoURL, <<>>, "")

\* the text decoding of the main resource's data is left out: data is the
\* main resource's bytes
DecodeFile(contents) ==
    IF ~contents.plist
    THEN DecodeResult(NoBytes, NoURL, <<>>, "failed to parse webarchive plist")
    ELSE LET Decoded(ar, main) ==
               DecodeResult(main.Data,
                            IF ParseFails(main.URL) THEN NoURL ELSE ParseURL(main.URL),
                            appendSubframes(
                              appendResources(appendResources(<<>>, ar.Subresources),
                                              ar.WebSubresources),
                              ar.WebSubframeArchives),
                            "")
             Main(ar) == IF ar.WebMainResource.URL # <<>> \/ ar.WebMainResource.Data.n > 0
                         THEN ar.WebMainResource ELSE ar.MainResource
         IN Decoded(contents.ar, Main(contents.ar))

\* the resources an archive may list: two with one URL and different bytes,
\* one with another URL, one with no URL
DItems ==
    {Resource(<<"u1">>, <<"image/", "png">>, Bytes("png", 1, 1, TRUE, 1)),
     Resource(<<"u1">>, <<"image/", "png">>, Bytes("png", 2, 2, TRUE, 2)),
     Resource(<<"u2">>, <<"image/", "png">>, Bytes("png", 3, 3, TRUE, 3)),
     Resource(<<>>, <<"image/", "png">>, Bytes("png", 4, 4, TRUE, 4))}
\* the lists of the archives, in file order: 1, 2 the top level's; 3, 4 the
\* first sub-frame's; 5, 6 those of the sub-frame inside it; 7 the second
\* sub-frame's Subresources (its WebSubresources stay empty)
Slots == 1..7
RECURSIVE Placements(_)
Placements(n) ==
    IF n = 0 THEN {<<>>}
    ELSE LET Extend(prev) ==
               prev \cup
               {Append(x[1], [slot |-> x[2], res |-> x[3]]) :
                  x \in {y \in prev \X Slots \X DItems :
                           /\ Len(y[1]) = n - 1
                           /\ (n = 1 \/ y[1][n - 1].slot <= y[2])}}
         IN Extend(Placements(n - 1))
ListAt(pl, k) ==
    LET Sel(here) == [i \in 1..Len(here) |-> here[i].res]
    IN Sel(SelectSeq(pl, LAMBDA e : e.slot = k))
MainPage == Resource(<<"https:", "//", "h", "/", "p">>, <<"text/html">>, Bytes("none", 0, 0, FALSE, 5))
WebMainPage == Resource(<<"https:", "//", "h", "/", "w">>, <<"text/html">>, Bytes("none", 0, 0, FALSE, 6))
Mains == {<<MainPage, NoResource>>, <<MainPage, WebMainPage>>}
Leaf(sub, webSub, frames) == Archive(NoResource, sub, NoResource, webSub, frames)
ArchiveOf(mains, pl) ==
    Archive(mains[1], ListAt(pl, 1), mains[2], ListAt(pl, 2),
            << Leaf(ListAt(pl, 3), ListAt(pl, 4), << Leaf(ListAt(pl, 5), ListAt(pl, 6), <<>>) >>),
               Leaf(ListAt(pl, 7), <<>>, <<>>) >>)
Contents ==
    {Plist(ArchiveOf(x[1], x[2])) : x \in Mains \X Placements(MaxItems)} \cup {NotAPlist}

DecodeIdle == dpc = "idle" /\ dcontents = NotAPlist /\ dres = NoDecodeResult

DecodeFileCall ==
    /\ dpc = "start"
    /\ dres' = DecodeFile(dcontents)
    /\ dpc' = "done"
    /\ UNCHANGED <<dcontents, tvars, lvars, nvars, rvars, ivars, svars, cvars, uvars>>

SrcsetIdle == spc = "idle" /\ ssrcset = <<>> /\ sbest = <<>>
ChainIdle ==
    /\ cpc = "idle" /\ cconfig = [key |-> FALSE, force |-> FALSE] /\ curl = "file"
    /\ cweb = [vanilla |-> "ok", bee |-> "ok"] /\ cmethods = <<>> /\ cnext = 1
    /\ ctried = <<>> /\ cfallbackErrors = <<>> /\ clastError = ""
    /\ cresult = [error |-> "", fallback |-> FALSE, by |-> ""]
TUIIdle ==
    /\ ustate = "idle" /\ uurl = "" /\ uexclude = FALSE /\ uchromedp = FALSE /\ ufocus = 0
    /\ uerr = "" /\ upending = "none" /\ uquit = FALSE
OthersIdle == SrcsetIdle /\ ChainIdle /\ TUIIdle
InlineIdle ==
    /\ ipc = "idle" /\ ihtml = <<>> /\ itable = <<>> /\ iinlined = <<>>
    /\ ioffered = <<>> /\ ifinal = <<>>

InitTransform ==
    /\ tpc = "start" /\ tdata \in TInputs /\ tout = NoOutput
    /\ LookupIdle /\ DecodeIdle /\ ResolveIdle /\ RewriterIdle /\ InlineIdle /\ OthersIdle
NextTransform == ProcessImageData
SpecTransform == InitTransform /\ [][NextTransform]_vars

InitLookup ==
    /\ lpc = "start" /\ lraw \in Requests /\ lbase \in Bases /\ ltable \in Tables
    /\ lres = NotFound
    /\ TransformIdle /\ DecodeIdle /\ ResolveIdle /\ RewriterIdle /\ InlineIdle /\ OthersIdle
NextLookup == ResolveResource
SpecLookup == InitLookup /\ [][NextLookup]_vars

InitDecode ==
    /\ dpc = "start" /\ dcontents \in Contents /\ dres = NoDecodeResult
    /\ TransformIdle /\ LookupIdle /\ ResolveIdle /\ RewriterIdle /\ InlineIdle /\ OthersIdle
NextDecode == DecodeFileCall
SpecDecode == InitDecode /\ [][NextDecode]_vars

InitResolve ==
    /\ npc = "start" /\ nresolver \in ResolverKinds /\ nclient \in Clients
    /\ nsrc \in Sources /\ nbase = BaseH /\ ntable \in ResolverTables /\ nserver \in Servers
    /\ nhit = NotFound /\ nreqs = <<>> /\ nfallback = 0 /\ nfbout = NoOutcome
    /\ nout = NoOutcome
    /\ TransformIdle /\ LookupIdle /\ DecodeIdle /\ RewriterIdle /\ InlineIdle /\ OthersIdle
NextResolve ==
    \/ WebarchiveResolveImage
    \/ NetworkResolveImage
    \/ ClientDoReturns
    \/ ClientTimeout
\* a step that can be taken is taken: the call runs, and a server that
\* answers is heard
SpecResolve == InitResolve /\ [][NextResolve]_vars /\ WF_vars(NextResolve)

(***************************************************************************)
(* Specification of the rewriter: processContent on every document of at   *)
(* most MaxTop different top-level elements, with images enabled and       *)
(* disabled, under every resolver that has an outcome for each of three    *)
(* URLs                                                                    *)
(***************************************************************************)
MaxTop == 2

UrlA == <<"a.jpg">>
UrlB == <<"b.jpg">>
UrlC == <<"c.jpg">>
RewriterURLs == {UrlA, UrlB, UrlC}
ImageAt(u) == IF u = UrlA THEN ImgA ELSE IF u = UrlB THEN ImgB ELSE ImgC

\* the three outcomes of NetworkImageResolver.ResolveImage and
\* WebarchiveImageResolver.ResolveImage
Success(u) == Outcome(processImageData(ImageAt(u)).url, TRUE, "")
Missing == Outcome(<<>>, FALSE, "")
Failure == Outcome(<<>>, FALSE, "failed")
NilResolver == [isNil |-> TRUE, out |-> [u \in RewriterURLs |-> Failure], other |-> Failure]
Resolvers ==
    {NilResolver} \cup
    {[isNil |-> FALSE, out |-> o, other |-> Failure] :
        o \in {f \in [RewriterURLs -> {Success(UrlA), Success(UrlB), Success(UrlC), Missing, Failure}] :
                 \A u \in RewriterURLs : f[u] \in {Success(u), Missing, Failure}}}

\* NetworkImageResolver.ResolveImage against a web that answers 200 with
\* served[u] at each URL u it serves and another status elsewhere
NetworkOutcome(served, src) ==
    IF src \in DOMAIN served THEN Resolved3(processImageData(served[src]))
    ELSE Outcome(<<>>, FALSE, "image download failed with status")
\* WebarchiveImageResolver.ResolveImage without a fallback
ArchiveOutcomes(table, baseURL, src) ==
    {IF d.ok THEN Resolved3(processBase64ImageData(d.url)) ELSE NoOutcome :
       d \in ResolveImageDataURL(src, baseURL, table)}
\* the two resolvers for the bytes ImageAt(u) at the URL u
NetworkServing(u) ==
    [isNil |-> FALSE,
     out |-> [s \in RewriterURLs |-> NetworkOutcome((u :> ImageAt(u)), s)],
     other |-> Outcome(<<>>, FALSE, "image download failed with status")]
ArchiveHolding(u) ==
    [isNil |-> FALSE,
     out |-> [s \in RewriterURLs |->
                CHOOSE o \in ArchiveOutcomes(
                               (u :> Resource(u, <<"image/", ImageAt(u).format>>, ImageAt(u))),
                               NoURL, s) : TRUE],
     other |-> NoOutcome]

\* processContent after the parse: the rewritten children of <body> and the
\* image count
processContent(r, content, exclude) ==
    LET Finish(forest, count) ==
          [out |-> unwrapAnchors(RemoveAll(forest, {"svg"})), count |-> count]
        AfterImages(p, i) ==
          LET Cleaned(l) ==
                Finish(removeEmptyFigures(RemoveAll(RemoveAll(l.out, {"source"}), {"picture"})),
                       p.count + i.count + l.count)
          IN Cleaned(processLoneSourceElements(r, i.out, FALSE))
        AfterPictures(p) ==
          LET Step(i) == AfterImages(p, i) IN Step(processImageElements(r, p.out))
    IN IF exclude THEN Finish(RemoveAll(content, {"img", "figure", "picture", "source"}), 0)
       ELSE AfterPictures(processPictureElements(r, content))

\* the pieces documents are made of
InlineGif == imageToBase64DataURL(ImgInline, <<"image/", "gif">>)
InlineBroken == imageToBase64DataURL(ImgCut, <<"image/", "png">>)
Q == "&quot;"

PlainText == El("p", NoAttrs, <<Text("hello")>>)
PlainImg == El("img", [src |-> UrlA, alt |-> <<"cat">>, class |-> <<"wide">>, width |-> <<"800">>], <<>>)
SubstackImg ==
    El("img",
       ("data-attrs" :> <<"{", Q, "src", Q, ":", Q, "a.jpg", Q, ",",
                          Q, "srcNoWatermark", Q, ":", Q, "b.jpg", Q, "}">>)
       @@ [src |-> UrlC],
       <<>>)
\* data-attrs values: JSON objects given by their members, as the text an
\* attribute holds
Member(key, kind, val) == [key |-> key, kind |-> kind, val |-> val]
RECURSIVE JSONMembersText(_, _)
JSONMembersText(obj, i) ==
    IF i > Len(obj) THEN <<>>
    ELSE (IF i > 1 THEN <<",">> ELSE <<>>)
         \o <<Q, obj[i].key, Q, ":">>
         \o (IF obj[i].kind = "string" THEN <<Q>> \o obj[i].val \o <<Q>>
             ELSE IF obj[i].kind = "number" THEN <<"5">> ELSE <<"null">>)
         \o JSONMembersText(obj, i + 1)
JSONText(obj) == <<"{">> \o JSONMembersText(obj, 1) \o <<"}">>
ObjBoth == <<Member("src", "string", UrlA), Member("srcNoWatermark", "string", UrlB)>>
ObjEmptyNoWatermark == <<Member("srcNoWatermark", "string", <<>>), Member("src", "string", UrlB)>>
ObjNullNoWatermark == <<Member("src", "string", UrlB), Member("srcNoWatermark", "null", <<>>)>>
ObjNumberNoWatermark == <<Member("src", "string", UrlA), Member("srcNoWatermark", "number", <<>>)>>
DataAttrsObjects == {ObjBoth, ObjEmptyNoWatermark, ObjNullNoWatermark, ObjNumberNoWatermark}
EmptyNoWatermarkImg ==
    El("img", ("data-attrs" :> JSONText(ObjEmptyNoWatermark)) @@ [src |-> UrlC], <<>>)
NullNoWatermarkImg ==
    El("img", ("data-attrs" :> JSONText(ObjNullNoWatermark)) @@ [src |-> UrlA], <<>>)
NumberNoWatermarkImg ==
    El("img", ("data-attrs" :> JSONText(ObjNumberNoWatermark)) @@ [src |-> UrlC], <<>>)
\* a data-attrs value cut short
MalformedAttrsImg ==
    El("img", ("data-attrs" :> <<"{", Q, "src", Q, ":", Q, "a.jpg">>) @@ [src |-> UrlB], <<>>)
InlineImg == El("img", [src |-> InlineGif], <<>>)
BrokenInlineImg == El("img", [src |-> InlineBroken, alt |-> <<"cut">>], <<>>)
NoSrcImg == El("img", [alt |-> <<"none">>], <<>>)
MarkedImg == El("img", ("data-processed" :> <<"1">>) @@ [src |-> UrlA, class |-> <<"wide">>], <<>>)
ScenarioPicture ==
    El("picture", NoAttrs,
       <<El("source", [srcset |-> <<"a.jpg", " ", "480w">>], <<>>),
         El("source", [srcset |-> <<"b.jpg", " ", "800w">>], <<>>),
         El("img", [src |-> UrlC], <<>>)>>)
FullPicture ==
    El("picture", NoAttrs,
       <<El("source",
            [srcset |-> <<"a.jpg", " ", "800w", ",", " ", "c.jpg", " ", "480w">>, src |-> UrlB],
            <<>>),
         El("img",
            ("data-attrs" :> <<"{", Q, "src", Q, ":", Q, "a.jpg", Q, "}">>)
            @@ [srcset |-> <<"c.jpg", " ", "480w", ",", " ", "b.jpg", " ", "800w">>,
                src |-> UrlC, alt |-> <<"dog", " ", "&", " ", "\"", "cat", "\"">>],
            <<>>)>>)
InlinePicture ==
    El("picture", NoAttrs,
       <<El("source", [src |-> UrlA], <<>>),
         El("img", [src |-> InlineBroken, alt |-> <<>>], <<>>)>>)
EmptyPicture == El("picture", NoAttrs, <<El("source", NoAttrs, <<>>), Text("caption")>>)
Video == El("video", NoAttrs, <<El("source", [src |-> UrlA], <<>>), Text("no video")>>)
LoneSource ==
    El("source",
       [srcset |-> <<"a.jpg", " ", "480w", ",", " ", "b.jpg", " ", "800w">>, src |-> UrlC],
       <<>>)
InlineSource == El("source", [srcset |-> InlineGif], <<>>)
Figure ==
    El("figure", NoAttrs,
       <<El("img", [src |-> UrlB], <<>>), El("figcaption", NoAttrs, <<Text("caption")>>)>>)
TextFigure == El("figure", NoAttrs, <<Text("quote")>>)
Anchor == El("a", [href |-> <<"http://h/">>], <<El("img", [src |-> UrlB], <<>>), Text("link")>>)
\* <a href="/outer"><table><tbody><tr><td><a href="/inner">in</a></td></tr></tbody></table></a>:
\* the cell keeps the parser from closing the outer <a> at the inner one
NestedAnchor ==
    El("a", [href |-> <<"/outer">>],
       <<El("table", NoAttrs,
            <<El("tbody", NoAttrs,
                 <<El("tr", NoAttrs,
                      <<El("td", NoAttrs,
                           <<El("a", [href |-> <<"/inner">>], <<Text("in")>>)>>)>>)>>)>>)>>)
Svg == El("svg", NoAttrs, <<El("text", NoAttrs, <<Text("label")>>)>>)

\* the elements, in the order they take in a document
Templates ==
    <<PlainText, PlainImg, SubstackImg, EmptyNoWatermarkImg, NullNoWatermarkImg,
      NumberNoWatermarkImg, MalformedAttrsImg, InlineImg, BrokenInlineImg, NoSrcImg, MarkedImg,
      ScenarioPicture, FullPicture, InlinePicture, EmptyPicture, Video, LoneSource,
      InlineSource, Figure, TextFigure, Anchor, NestedAnchor, Svg>>
Documents ==
    {[i \in 1..Len(f) |-> Templates[f[i]]] :
        f \in UNION {{g \in [1..n -> 1..Len(Templates)] :
                        \A i \in 1..n : \A j \in 1..n : i < j => g[i] < g[j]} : n \in 1..MaxTop}}

\* goquery.NewDocumentFromReader(strings.NewReader(article.Content)): the
\* children of <body>
ParseContent ==
    /\ pc = "start"
    /\ doc' = input
    /\ imageCount' = 0
    /\ pc' = IF excludeImages THEN "excluding" ELSE "parsed"
    /\ UNCHANGED <<input, excludeImages, resolver, calls, passlog, err>>

\* imageCount += processPictureElements(contentDoc, baseURL, resolver)
ProcessPictures ==
    /\ pc = "parsed"
    /\ LET Apply(r) ==
             /\ doc' = r.out
             /\ imageCount' = imageCount + r.count
             /\ passlog' = passlog \o r.log
             /\ calls' = calls \o CallsOf(r.log)
       IN Apply(processPictureElements(resolver, doc))
    /\ pc' = "pictures"
    /\ UNCHANGED <<input, excludeImages, resolver, err>>

\* imageCount += processImageElements(contentDoc, baseURL, resolver)
ProcessImages ==
    /\ pc = "pictures"
    /\ LET Apply(r) ==
             /\ doc' = r.out
             /\ imageCount' = imageCount + r.count
             /\ passlog' = passlog \o r.log
             /\ calls' = calls \o CallsOf(r.log)
       IN Apply(processImageElements(resolver, doc))
    /\ pc' = "images"
    /\ UNCHANGED <<input, excludeImages, resolver, err>>

\* imageCount += processLoneSourceElements(contentDoc, baseURL, resolver)
ProcessLoneSources ==
    /\ pc = "images"
    /\ LET Apply(r) ==
             /\ doc' = r.out
             /\ imageCount' = imageCount + r.count
             /\ passlog' = passlog \o r.log
             /\ calls' = calls \o CallsOf(r.log)
       IN Apply(processLoneSourceElements(resolver, doc, FALSE))
    /\ pc' = "sources"
    /\ UNCHANGED <<input, excludeImages, resolver, err>>

\* Find("source").Remove(), Find("picture").Remove(), and the figures
\* without an <img>
RemoveLeftovers ==
    /\ pc = "sources"
    /\ doc' = removeEmptyFigures(RemoveAll(RemoveAll(doc, {"source"}), {"picture"}))
    /\ pc' = "cleaned"
    /\ UNCHANGED <<input, excludeImages, resolver, imageCount, calls, passlog, err>>

\* Find("img,figure,picture,source").Remove()
RemoveAllImagesKeepFigures ==
    /\ pc = "excluding"
    /\ doc' = RemoveAll(doc, {"img", "picture", "source"})
    /\ pc' = "cleaned"
    /\ UNCHANGED <<input, excludeImages, resolver, imageCount, calls, passlog, err>>
RemoveAllImages ==
    /\ pc = "excluding"
    /\ doc' = RemoveAll(doc, {"img", "figure", "picture", "source"})
    /\ pc' = "cleaned"
    /\ UNCHANGED <<input, excludeImages, resolver, imageCount, calls, passlog, err>>

\* Find("svg").Remove()
RemoveSvg ==
    /\ pc = "cleaned"
    /\ doc' = RemoveAll(doc, {"svg"})
    /\ pc' = "nosvg"
    /\ UNCHANGED <<input, excludeImages, resolver, imageCount, calls, passlog, err>>

\* Find("a").Each: ReplaceWithHtml of the inner HTML
UnwrapAnchors ==
    /\ pc = "nosvg"
    /\ doc' = unwrapAnchors(doc)
    /\ pc' = "unwrapped"
    /\ UNCHANGED <<input, excludeImages, resolver, imageCount, calls, passlog, err>>

\* article.Content, err = contentDoc.Find("body").Html(); return
ExtractContent ==
    /\ pc = "unwrapped"
    /\ pc' = "done"
    /\ UNCHANGED <<input, doc, excludeImages, resolver, imageCount, calls, passlog, err>>

InitRewrite ==
    /\ pc = "start" /\ input \in Documents /\ excludeImages \in BOOLEAN
    /\ resolver \in Resolvers
    /\ doc = <<>> /\ imageCount = 0 /\ calls = <<>> /\ passlog = <<>> /\ err = ""
    /\ TransformIdle /\ LookupIdle /\ DecodeIdle /\ ResolveIdle /\ InlineIdle /\ OthersIdle
NextRewrite ==
    \/ ParseContent /\ UNCHANGED <<tvars, lvars, dvars, nvars, ivars, svars, cvars, uvars>>
    \/ ProcessPictures /\ UNCHANGED <<tvars, lvars, dvars, nvars, ivars, svars, cvars, uvars>>
    \/ ProcessImages /\ UNCHANGED <<tvars, lvars, dvars, nvars, ivars, svars, cvars, uvars>>
    \/ ProcessLoneSources /\ UNCHANGED <<tvars, lvars, dvars, nvars, ivars, svars, cvars, uvars>>
    \/ RemoveLeftovers /\ UNCHANGED <<tvars, lvars, dvars, nvars, ivars, svars, cvars, uvars>>
    \/ RemoveAllImages /\ UNCHANGED <<tvars, lvars, dvars, nvars, ivars, svars, cvars, uvars>>
    \/ RemoveSvg /\ UNCHANGED <<tvars, lvars, dvars, nvars, ivars, svars, cvars, uvars>>
    \/ UnwrapAnchors /\ UNCHANGED <<tvars, lvars, dvars, nvars, ivars, svars, cvars, uvars>>
    \/ ExtractContent /\ UNCHANGED <<tvars, lvars, dvars, nvars, ivars, svars, cvars, uvars>>
SpecRewrite == InitRewrite /\ [][NextRewrite]_vars

(***************************************************************************)
(* InlineImages: internal/webarchive, and the archive path of              *)
(* ProcessArticleWithContext that runs it before processContent             *)
(***************************************************************************)
\* isExternalURL that takes no URL for external
isExternalURLNever(raw) == FALSE
\* isExternalURL
isExternalURL(raw) == ~ParseFails(raw) /\ ParseURL(raw).scheme \in {"http", "https"}

\* strings.Join
RECURSIVE Join(_, _)
Join(parts, sep) ==
    IF parts = <<>> THEN <<>>
    ELSE IF Len(parts) = 1 THEN parts[1]
    ELSE parts[1] \o sep \o Join(Tail(parts), sep)

\* the closure inlineURL of one call of InlineImages: look[raw] is what
\* resolveResource and resourceToDataURL give for raw during the call
inlineURL(look, raw) == look[raw]

\* the loop of inlineSrcset over the parts from part i on: the entries kept
RECURSIVE inlineSrcsetLoop(_, _, _)
inlineSrcsetLoop(look, parts, i) ==
    LET Kept(fields, d) ==
          IF d.ok THEN <<Join(<<d.url>> \o Tail(fields), <<" ">>)>> ELSE <<>>
        Entry1(fields) ==
          IF Len(fields) = 0 THEN <<>> ELSE Kept(fields, inlineURL(look, fields[1]))
    IN IF i > Len(parts) THEN <<>>
       ELSE Entry1(Fields(TrimSpace(parts[i]))) \o inlineSrcsetLoop(look, parts, i + 1)

\* inlineSrcset
inlineSrcset(look, srcset) ==
    LET Result(kept) ==
          IF kept = <<>> THEN [s |-> <<>>, ok |-> FALSE]
          ELSE [s |-> Join(kept, <<",", " ">>), ok |-> TRUE]
    IN Result(inlineSrcsetLoop(look, SplitOn(srcset, ","), 1))

\* the body of the Each over <img>: the element, inlinedSrc and updatedSrcset
\* after each of its steps
inlineImg(look, s) ==
    LET St(n, inl, upd) == [n |-> n, inlinedSrc |-> inl, updatedSrcset |-> upd]
        DataAttrs(st) ==
          LET Inlined(d) ==
                IF d.ok THEN St(RemoveAttrs(SetAttr(st.n, "src", d.url), {"data-attrs"}),
                                d.url, st.updatedSrcset)
                ELSE St(RemoveAttrs(st.n, {"data-attrs"}), st.inlinedSrc, st.updatedSrcset)
              With(raw) == IF raw = <<>> THEN st ELSE Inlined(inlineURL(look, raw))
          IN IF ~HasAttr(st.n, "data-attrs") THEN st
             ELSE With(extractURLFromDataAttrs(Attr(st.n, "data-attrs")))
        Src(st) ==
          LET Inlined(src, d) ==
                IF d.ok THEN St(SetAttr(st.n, "src", d.url), d.url, st.updatedSrcset)
                ELSE IF isExternalURL(src)
                  THEN St(RemoveAttrs(st.n, {"src"}), st.inlinedSrc, st.updatedSrcset)
                ELSE st
          IN IF ~HasAttr(st.n, "src") THEN st
             ELSE Inlined(Attr(st.n, "src"), inlineURL(look, Attr(st.n, "src")))
        DataSrc(st) ==
          LET Inlined(src, d) ==
                IF d.ok /\ st.inlinedSrc = <<>>
                  THEN St(SetAttr(SetAttr(st.n, "data-src", d.url), "src", d.url),
                          d.url, st.updatedSrcset)
                ELSE IF d.ok
                  THEN St(SetAttr(st.n, "data-src", d.url), st.inlinedSrc, st.updatedSrcset)
                ELSE IF isExternalURL(src)
                  THEN St(RemoveAttrs(st.n, {"data-src"}), st.inlinedSrc, st.updatedSrcset)
                ELSE st
          IN IF ~HasAttr(st.n, "data-src") THEN st
             ELSE Inlined(Attr(st.n, "data-src"), inlineURL(look, Attr(st.n, "data-src")))
        Srcset(st) ==
          LET Updated(u) ==
                IF u.ok THEN St(SetAttr(st.n, "srcset", u.s), st.inlinedSrc, u.s)
                ELSE St(RemoveAttrs(st.n, {"srcset"}), st.inlinedSrc, st.updatedSrcset)
          IN IF ~HasAttr(st.n, "srcset") THEN st
             ELSE Updated(inlineSrcset(look, Attr(st.n, "srcset")))
        DataSrcset(st) ==
          LET Updated(u) ==
                IF u.ok THEN St(SetAttr(st.n, "data-srcset", u.s), st.inlinedSrc,
                                IF st.updatedSrcset = <<>> THEN u.s ELSE st.updatedSrcset)
                ELSE St(RemoveAttrs(st.n, {"data-srcset"}), st.inlinedSrc, st.updatedSrcset)
          IN IF ~HasAttr(st.n, "data-srcset") THEN st
             ELSE Updated(inlineSrcset(look, Attr(st.n, "data-srcset")))
        Fill(st) ==
          LET First(fields) == IF Len(fields) > 0 THEN SetAttr(st.n, "src", fields[1]) ELSE st.n
          IN IF st.inlinedSrc = <<>> /\ st.updatedSrcset # <<>>
               THEN First(Fields(TrimSpace(SplitOn(st.updatedSrcset, ",")[1])))
             ELSE st.n
    IN Fill(DataSrcset(Srcset(DataSrc(Src(DataAttrs(St(s, <<>>, <<>>)))))))

\* the body of the Each over <source>
inlineSource(look, s) ==
    LET Src(n) ==
          LET Inlined(src, d) ==
                IF d.ok THEN SetAttr(n, "src", d.url)
                ELSE IF isExternalURL(src) THEN RemoveAttrs(n, {"src"})
                ELSE n
          IN IF ~HasAttr(n, "src") THEN n
             ELSE Inlined(Attr(n, "src"), inlineURL(look, Attr(n, "src")))
        Srcset(n) ==
          LET Updated(u) ==
                IF u.ok THEN SetAttr(n, "srcset", u.s) ELSE RemoveAttrs(n, {"srcset"})
          IN IF ~HasAttr(n, "srcset") THEN n
             ELSE Updated(inlineSrcset(look, Attr(n, "srcset")))
    IN Srcset(Src(s))

\* InlineImages after the parse: every <img>, then every <source>
RECURSIVE InlineImages(_, _)
InlineImages(look, forest) ==
    IF forest = <<>> THEN <<>>
    ELSE LET n == Head(forest)
         IN <<IF n.tag = "img" THEN inlineImg(look, n)
              ELSE IF n.tag = "source" THEN inlineSource(look, n)
              ELSE [n EXCEPT !.kids = InlineImages(look, n.kids)]>>
            \o InlineImages(look, Tail(forest))

\* the URLs of the archive articles at hand
AbsFound == KeyU
RelFound == SrcU
AbsMissing == HostH \o <<"/", "z", "/", "n", ".", "p">>
RelMissing == SrcV
AbsStyle == StoredCSS.URL
AbsUnparsable == HostH \o <<"/", "%">>
HeldImage == Resource(KeyU, <<"image/", "png">>, ImgB)
HeldImageURI == resourceToDataURL(HeldImage).url
\* every string InlineImages and processContent look up for these articles:
\* the URLs, the data URI of the image and what the srcset fill makes of it
InlineRaws ==
    {AbsFound, RelFound, AbsMissing, RelMissing, AbsStyle, AbsUnparsable, HeldImageURI,
     SubSeq(HeldImageURI, 1, 4)}
InlineBase == BaseH
InlineTables ==
    {<<>>, (KeyU :> HeldImage), (StoredCSS.URL :> StoredCSS),
     (KeyU :> HeldImage) @@ (StoredCSS.URL :> StoredCSS)}

\* what the lookups of one call can give for each string
Lookups(baseURL, resources) ==
    LET Consistent(results) ==
          {look \in [InlineRaws -> {DataURL(<<>>, FALSE), DataURL(HeldImageURI, TRUE)}] :
             \A raw \in InlineRaws : <<raw, look[raw]>> \in results}
    IN Consistent(UNION {{<<raw, DataURL(d.url, d.ok)>> :
                            d \in ResolveImageDataURL(raw, baseURL, resources)} :
                         raw \in InlineRaws})

W480 == <<" ", "480w">>
W800 == <<" ", "800w">>
InlineTemplates ==
    <<El("img", [src |-> RelFound, alt |-> <<"cat">>], <<>>),
      El("img", [src |-> AbsFound], <<>>),
      El("img", [src |-> AbsMissing, srcset |-> AbsMissing \o <<" ", "1x">>], <<>>),
      El("img", [src |-> AbsMissing, alt |-> <<"cat">>], <<>>),
      El("img", [src |-> RelMissing], <<>>),
      El("img", [src |-> AbsUnparsable], <<>>),
      El("img", [src |-> AbsStyle], <<>>),
      El("img", [srcset |-> AbsFound \o W480 \o <<",", " ">> \o AbsMissing \o W800], <<>>),
      El("img", ("data-src" :> AbsFound), <<>>),
      El("img", ("data-src" :> AbsMissing), <<>>),
      El("img", ("data-srcset" :> RelFound \o W480) @@ [src |-> AbsMissing], <<>>),
      El("img", ("data-attrs" :> JSONText(<<Member("src", "string", AbsFound)>>))
                @@ [src |-> AbsMissing], <<>>),
      El("video", NoAttrs,
         <<El("source", [src |-> AbsMissing, srcset |-> AbsFound \o W480], <<>>)>>),
      El("video", NoAttrs, <<El("source", [src |-> AbsFound], <<>>)>>)>>
MaxInline == 2
InlineDocuments ==
    {[i \in 1..Len(f) |-> InlineTemplates[f[i]]] :
        f \in UNION {{g \in [1..n -> 1..Len(InlineTemplates)] :
                        \A i \in 1..n : \A j \in 1..n : i < j => g[i] < g[j]} : n \in 1..MaxInline}}

\* webarchive.InlineImages(article.Content, resp.Request.URL, waResolver.resources)
InlineImagesCall ==
    /\ ipc = "start"
    /\ \E look \in Lookups(InlineBase, itable) : iinlined' = InlineImages(look, ihtml)
    /\ ipc' = "inlined"
    /\ UNCHANGED <<ihtml, itable, ioffered, ifinal>>
    /\ UNCHANGED <<tvars, lvars, dvars, nvars, rvars, svars, cvars, uvars>>

\* NewWebarchiveImageResolver(resources).WithFallback(NewNetworkImageResolver(nil))
\* for one choice of lookups, against a web that serves none of the images
ArchiveWithFallback(look) ==
    [isNil |-> FALSE,
     out |-> [s \in InlineRaws |->
                IF look[s].ok THEN Resolved3(processBase64ImageData(look[s].url))
                ELSE NetworkOutcome(<<>>, s)],
     other |-> NetworkOutcome(<<>>, <<>>)]

\* processContent(article, resp.Request.URL, false, resolver) on the inlined
\* content: the three image passes in order, then the rest
ProcessInlinedContent ==
    /\ ipc = "inlined"
    /\ \E look \in Lookups(InlineBase, itable) :
         LET r == ArchiveWithFallback(look)
             Missed(s) == ~look[s].ok
             Offered(p, i, l) ==
               SelectSeq(CallsOf(p.log) \o CallsOf(i.log) \o CallsOf(l.log), Missed)
             AfterImages(p, i) == Offered(p, i, processLoneSourceElements(r, i.out, FALSE))
             AfterPictures(p) == AfterImages(p, processImageElements(r, p.out))
         IN /\ ioffered' = AfterPictures(processPictureElements(r, iinlined))
            /\ ifinal' = processContent(r, iinlined, FALSE).out
    /\ ipc' = "done"
    /\ UNCHANGED <<ihtml, itable, iinlined>>
    /\ UNCHANGED <<tvars, lvars, dvars, nvars, rvars, svars, cvars, uvars>>

InitInline ==
    /\ ipc = "start" /\ ihtml \in InlineDocuments /\ itable \in InlineTables
    /\ iinlined = <<>> /\ ioffered = <<>> /\ ifinal = <<>>
    /\ TransformIdle /\ LookupIdle /\ DecodeIdle /\ ResolveIdle /\ RewriterIdle /\ OthersIdle
NextInline ==
    \/ InlineImagesCall
    \/ ProcessInlinedContent
SpecInline == InitInline /\ [][NextInline]_vars

(***************************************************************************)
(* Specification of pickBestFromSrcset: the function on every srcset of at *)
(* most MaxEntries entries, written as the page or InlineImages writes it   *)
(***************************************************************************)
MaxEntries == 2

\* a srcset entry: a URL and a descriptor (none, a width, a density, a bare
\* "w"); the entry without a URL is a blank between two commas
SrcsetEntry(url, desc) == [url |-> url, desc |-> desc]
BlankEntry == SrcsetEntry(<<>>, <<>>)
SrcsetEntries ==
    {SrcsetEntry(u, d) : u \in {UrlA, UrlB, HeldImageURI},
                         d \in {<<>>, <<"480w">>, <<"800w">>, <<"2x">>, <<"w">>}}
    \cup {BlankEntry}
\* the text of the attribute: the entries, separated by ", "
RECURSIVE SrcsetParts(_)
SrcsetParts(entries) ==
    IF entries = <<>> THEN <<>>
    ELSE <<Head(entries).url
           \o (IF Head(entries).desc = <<>> THEN <<>> ELSE <<" ">> \o Head(entries).desc)>>
         \o SrcsetParts(Tail(entries))
SrcsetText(entries) == Join(SrcsetParts(entries), <<",", " ">>)
Srcsets == UNION {[1..n -> SrcsetEntries] : n \in 0..MaxEntries}

PickBestFromSrcset ==
    /\ spc = "start"
    /\ sbest' = pickBestFromSrcset(SrcsetText(ssrcset))
    /\ spc' = "done"
    /\ UNCHANGED ssrcset
    /\ UNCHANGED <<tvars, lvars, dvars, nvars, rvars, ivars, cvars, uvars>>

InitSrcset ==
    /\ spc = "start" /\ ssrcset \in Srcsets /\ sbest = <<>>
    /\ TransformIdle /\ LookupIdle /\ DecodeIdle /\ ResolveIdle /\ RewriterIdle /\ InlineIdle
    /\ ChainIdle /\ TUIIdle
NextSrcset == PickBestFromSrcset
SpecSrcset == InitSrcset /\ [][NextSrcset]_vars

(***************************************************************************)
(* The retrieval chain: retrieval (NewChain, Chain.RetrieveWithCallback,   *)
(* VanillaMethod.Retrieve, ScrapingBeeMethod.Retrieve)                      *)
(***************************************************************************)
Vanilla == "Vanilla HTTP"
ScrapingBee == "ScrapingBee"

\* Config: ScrapingBeeAPIKey != "", ForceScrapingBee
Config(key, force) == [key |-> key, force |-> force]

\* NewChain: the methods, in order
NewChainMethods(config) ==
    (IF ~config.force THEN <<Vanilla>> ELSE <<>>)
    \o (IF config.key THEN <<ScrapingBee>> ELSE <<>>)
    \o (IF config.force THEN <<Vanilla>> ELSE <<>>)

\* VanillaMethod.CanHandle, ScrapingBeeMethod.CanHandle: url.String() starts
\* with http:// or https://
CanHandle(method, url) == url \in {"http", "https"}

\* Result: the error ("" for nil), whether it is a *FallbackError, and the
\* method that returned it
Result(e, fallback, by) == [error |-> e, fallback |-> fallback, by |-> by]
NoResult == Result("", FALSE, "")

\* what a request can meet: an answer 200 with the page, a request that
\* cannot be built, a timeout, another network error, a status 403, 429 or
\* another one, a body that cannot be read, a page isContentBlocked reports
Meets == {"ok", "badrequest", "timeout", "neterr", "403", "429", "500", "readerr", "blocked"}

\* VanillaMethod.Retrieve: every failure is a plain error
VanillaRetrieve(meets) ==
    CASE meets = "ok" -> Result("", FALSE, Vanilla)
      [] meets = "badrequest" -> Result("request error", FALSE, Vanilla)
      [] meets = "timeout" -> Result("request timeout (>5s)", FALSE, Vanilla)
      [] meets = "neterr" -> Result("network error", FALSE, Vanilla)
      [] meets \in {"403", "429"} -> Result("blocked by server", FALSE, Vanilla)
      [] meets = "500" -> Result("HTTP status", FALSE, Vanilla)
      [] meets = "readerr" -> Result("read error", FALSE, Vanilla)
      [] OTHER -> Result("content indicates blocking", FALSE, Vanilla)

\* ScrapingBeeMethod.Retrieve: every failure is a *FallbackError (a status
\* 403 is one of the statuses other than 200)
ScrapingBeeRetrieve(meets) ==
    CASE meets = "ok" -> Result("", FALSE, ScrapingBee)
      [] meets = "badrequest" -> Result("request creation failed", TRUE, ScrapingBee)
      [] meets = "timeout" -> Result("API request timeout (>30s)", TRUE, ScrapingBee)
      [] meets = "neterr" -> Result("API request failed", TRUE, ScrapingBee)
      [] meets = "429" -> Result("API rate limit exceeded", TRUE, ScrapingBee)
      [] meets \in {"403", "500"} -> Result("API returned status", TRUE, ScrapingBee)
      [] meets = "readerr" -> Result("failed to read API response", TRUE, ScrapingBee)
      [] OTHER -> Result("content indicates blocking (Cloudflare/JS required)", TRUE,
                         ScrapingBee)

\* method.Retrieve(url)
Retrieve(method, web) ==
    IF method = Vanilla THEN VanillaRetrieve(web.vanilla) ELSE ScrapingBeeRetrieve(web.bee)

\* chain := NewChain(config)
NewChain ==
    /\ cpc = "start"
    /\ cmethods' = NewChainMethods(cconfig)
    /\ cnext' = 1
    /\ cpc' = "loop"
    /\ UNCHANGED <<cconfig, curl, cweb, ctried, cfallbackErrors, clastError, cresult>>
    /\ UNCHANGED <<tvars, lvars, dvars, nvars, rvars, ivars, svars, uvars>>

\* one turn of the loop of RetrieveWithCallback over the methods
TryMethod ==
    /\ cpc = "loop" /\ cnext <= Len(cmethods)
    /\ IF ~CanHandle(cmethods[cnext], curl)
       THEN /\ cnext' = cnext + 1
            /\ UNCHANGED <<cpc, ctried, cfallbackErrors, clastError, cresult>>
       ELSE LET Returned1(result) ==
                  /\ ctried' = Append(ctried, cmethods[cnext])
                  /\ IF result.error # "" /\ result.fallback
                       THEN /\ cfallbackErrors' = Append(cfallbackErrors, result.error)
                            /\ cnext' = cnext + 1
                            /\ UNCHANGED <<cpc, clastError, cresult>>
                     ELSE IF result.error # ""
                       THEN /\ clastError' = result.error
                            /\ cpc' = "failed"
                            /\ UNCHANGED <<cnext, cfallbackErrors, cresult>>
                     ELSE /\ cresult' = result
                          /\ cpc' = "done"
                          /\ UNCHANGED <<cnext, cfallbackErrors, clastError>>
            IN Returned1(Retrieve(cmethods[cnext], cweb))
    /\ UNCHANGED <<cconfig, curl, cweb, cmethods>>
    /\ UNCHANGED <<tvars, lvars, dvars, nvars, rvars, ivars, svars, uvars>>

\* after the loop: all methods failed
AllFailed ==
    /\ \/ cpc = "loop" /\ cnext > Len(cmethods)
       \/ cpc = "failed"
    /\ cresult' =
         IF Len(cfallbackErrors) > 0
           THEN Result("all retrieval methods failed with fallback errors", FALSE, "")
         ELSE IF clastError # "" THEN Result("retrieval failed", FALSE, "")
         ELSE Result("no suitable retrieval method found", FALSE, "")
    /\ cpc' = "done"
    /\ UNCHANGED <<cconfig, curl, cweb, cmethods, cnext, ctried, cfallbackErrors, clastError>>
    /\ UNCHANGED <<tvars, lvars, dvars, nvars, rvars, ivars, svars, uvars>>

InitChain ==
    /\ cpc = "start"
    /\ cconfig \in {Config(key, force) : key \in BOOLEAN, force \in BOOLEAN}
    /\ curl \in {"https", "http", "file"}
    /\ cweb \in [vanilla : Meets, bee : Meets]
    /\ cmethods = <<>> /\ cnext = 1 /\ ctried = <<>> /\ cfallbackErrors = <<>>
    /\ clastError = "" /\ cresult = NoResult
    /\ TransformIdle /\ LookupIdle /\ DecodeIdle /\ ResolveIdle /\ RewriterIdle /\ InlineIdle
    /\ SrcsetIdle /\ TUIIdle
NextChain ==
    \/ NewChain
    \/ TryMethod
    \/ AllFailed
SpecChain == InitChain /\ [][NextChain]_vars

(***************************************************************************)
(* The TUI: tui.go (initialModel, model.Update and the commands it starts) *)
(***************************************************************************)
Screens == {"inputScreen", "retrievalScreen", "postProcessingScreen", "editScreen",
            "sendingScreen", "completionScreen"}

\* the text of urlInput: empty or not
Texts == {"", "u"}

\* the final switch of Update for a key the url input takes: a focused
\* input on inputScreen takes the typed text, a blurred one ignores it
urlInputUpdate(typed) ==
    IF ustate = "inputScreen" /\ ufocus = 0 /\ typed THEN "u" ELSE uurl

\* initialModel() as Enter on completionScreen calls it
ResetModel ==
    /\ ustate' = "inputScreen" /\ uurl' = "" /\ uexclude' = FALSE /\ uchromedp' = FALSE
    /\ ufocus' = 0 /\ uerr' = "" /\ upending' = "none"

\* case "ctrl+c"
KeyCtrlC ==
    /\ ustate # "idle" /\ ~uquit
    /\ uquit' = TRUE
    /\ UNCHANGED <<ustate, uurl, uexclude, uchromedp, ufocus, uerr, upending>>

\* case "tab", "down" and case "up", by the step d they add to the focus
KeyMove(d) ==
    /\ ustate # "idle" /\ ~uquit
    /\ ufocus' = IF ustate = "inputScreen" THEN (ufocus + d) % 3 ELSE ufocus
    /\ UNCHANGED <<ustate, uurl, uexclude, uchromedp, uerr, upending, uquit>>
KeyTab == KeyMove(1)
KeyUp == KeyMove(2)

\* case " " that toggles on every screen
KeySpaceAnyScreen ==
    /\ ustate # "idle" /\ ~uquit
    /\ uexclude' = IF ufocus = 1 THEN ~uexclude ELSE uexclude
    /\ uchromedp' = IF ufocus = 2 THEN ~uchromedp ELSE uchromedp
    /\ uurl' = urlInputUpdate(TRUE)
    /\ UNCHANGED <<ustate, ufocus, uerr, upending, uquit>>
\* case " "
KeySpace ==
    /\ ustate # "idle" /\ ~uquit
    /\ uexclude' = IF ustate = "inputScreen" /\ ufocus = 1 THEN ~uexclude ELSE uexclude
    /\ uchromedp' = IF ustate = "inputScreen" /\ ufocus = 2 THEN ~uchromedp ELSE uchromedp
    /\ uurl' = urlInputUpdate(TRUE)
    /\ UNCHANGED <<ustate, ufocus, uerr, upending, uquit>>

\* case "esc"
KeyEsc ==
    /\ ustate # "idle" /\ ~uquit
    /\ uquit' = (ustate = "completionScreen")
    /\ UNCHANGED <<ustate, uurl, uexclude, uchromedp, ufocus, uerr, upending>>

\* case "enter"
KeyEnter ==
    /\ ustate # "idle" /\ ~uquit
    /\ IF ustate = "inputScreen" /\ uurl # ""
         THEN /\ ustate' = "retrievalScreen" /\ upending' = "retrieve"
              /\ UNCHANGED <<uurl, uexclude, uchromedp, ufocus, uerr>>
       ELSE IF ustate = "editScreen"
         THEN /\ ustate' = "sendingScreen" /\ upending' = "send"
              /\ UNCHANGED <<uurl, uexclude, uchromedp, ufocus, uerr>>
       ELSE IF ustate = "completionScreen" THEN ResetModel
       ELSE UNCHANGED <<ustate, uurl, uexclude, uchromedp, ufocus, uerr, upending>>
    /\ UNCHANGED uquit

\* any other key: a character typed, or one deleted
KeyOther ==
    /\ ustate # "idle" /\ ~uquit
    /\ \E typed \in BOOLEAN :
         uurl' = IF typed THEN urlInputUpdate(TRUE)
                 ELSE IF ustate = "inputScreen" /\ ufocus = 0 THEN "" ELSE uurl
    /\ UNCHANGED <<ustate, uexclude, uchromedp, ufocus, uerr, upending, uquit>>

\* case retrievalCompleteMsg, the message of retrieveContentCmd
RetrievalComplete ==
    /\ upending = "retrieve" /\ ~uquit
    /\ \E e \in {"", "failed"} :
         IF e # "" THEN uerr' = e /\ ustate' = "completionScreen" /\ upending' = "none"
         ELSE ustate' = "postProcessingScreen" /\ upending' = "process" /\ UNCHANGED uerr
    /\ UNCHANGED <<uurl, uexclude, uchromedp, ufocus, uquit>>

\* case postProcessingCompleteMsg, the message of processContentCmd
PostProcessingComplete ==
    /\ upending = "process" /\ ~uquit
    /\ \E e \in {"", "failed"} :
         IF e # "" THEN uerr' = e /\ ustate' = "completionScreen"
         ELSE ustate' = "editScreen" /\ UNCHANGED uerr
    /\ upending' = "none"
    /\ UNCHANGED <<uurl, uexclude, uchromedp, ufocus, uquit>>

\* case sendCompleteMsg, the message of sendArticle
SendComplete ==
    /\ upending = "send" /\ ~uquit
    /\ \E e \in {"", "failed"} : uerr' = e
    /\ ustate' = "completionScreen"
    /\ upending' = "none"
    /\ UNCHANGED <<uurl, uexclude, uchromedp, ufocus, uquit>>

OtherVars == <<tvars, lvars, dvars, nvars, rvars, ivars, svars, cvars>>
InitTUI ==
    /\ ustate = "inputScreen" /\ uurl \in Texts /\ uexclude = FALSE /\ uchromedp = FALSE
    /\ ufocus = 0 /\ uerr = "" /\ upending = "none" /\ uquit = FALSE
    /\ TransformIdle /\ LookupIdle /\ DecodeIdle /\ ResolveIdle /\ RewriterIdle /\ InlineIdle
    /\ SrcsetIdle /\ ChainIdle
NextTUI ==
    \/ KeyCtrlC /\ UNCHANGED OtherVars
    \/ KeyTab /\ UNCHANGED OtherVars
    \/ KeyUp /\ UNCHANGED OtherVars
    \/ KeySpace /\ UNCHANGED OtherVars
    \/ KeyEsc /\ UNCHANGED OtherVars
    \/ KeyEnter /\ UNCHANGED OtherVars
    \/ KeyOther /\ UNCHANGED OtherVars
    \/ RetrievalComplete /\ UNCHANGED OtherVars
    \/ PostProcessingComplete /\ UNCHANGED OtherVars
    \/ SendComplete /\ UNCHANGED OtherVars
SpecTUI == InitTUI /\ [][NextTUI]_vars

(***************************************************************************)
(* Properties of the image transform                                       *)
(***************************************************************************)
Transformed == tpc = "done" /\ tout.err = ""

\* The output format the specification gives for each detected format
ExpectedOutputFormat ==
    [f \in DecodableFormats |-> IF f \in {"jpeg", "png", "gif"} THEN f ELSE "jpeg"]

\* C7: for every successfully transformed image the output format is a
\* function of the detected source format only (jpeg, png, gif kept, webp and
\* any other format to jpeg), the bytes are encoded in that format, and the
\* data URI is data:image/<output format>;base64,<payload of the output bytes>,
\* so its MIME type is one of image/jpeg, image/png, image/gif.
C7_OutputFormat ==
    Transformed =>
        /\ tout.format = ExpectedOutputFormat[tdata.format]
        /\ tout.format \in {"jpeg", "png", "gif"}
        /\ tout.data.format = tout.format
        /\ tout.url = <<"data:", "image/", tout.format, ";base64", ",", Base64Encode(tout.data)>>

C7_Witness ==
    /\ Transformed /\ tdata.format = "webp"
    /\ SubSeq(tout.url, 1, 3) = <<"data:", "image/", "jpeg">>

\* C8: for every successfully transformed image of size w x h the output size
\* w' x h' has max(w', h') <= 300, and w'/h' equals w/h within integer
\* rounding: one side is scaled exactly and the other is less than one pixel
\* away from its exact value, i.e. |w'*h - w*h'| < max(w, h).
C8_ResizeBound ==
    Transformed =>
        /\ Max(tout.data.w, tout.data.h) <= 300
        /\ tout.data.w >= 1 /\ tout.data.h >= 1
        /\ Abs(tout.data.w * tdata.h - tdata.w * tout.data.h) < Max(tdata.w, tdata.h)

C8_Witness ==
    /\ Transformed /\ tdata.w > 300 /\ tdata.h > tdata.w
    /\ tout.data.h = 300 /\ tout.data.w < 300

(***************************************************************************)
(* Properties of the archive lookup                                        *)
(***************************************************************************)
Hit(n) == Lookup(n, lraw, lbase, ltable)
FirstHit == IF \E n \in 1..8 : Hit(n) # {}
            THEN CHOOSE n \in 1..8 : Hit(n) # {} /\ \A m \in 1..(n - 1) : Hit(m) = {}
            ELSE 0

\* C9: resolveResource tries, in this order, the exact resolved URL (1), the
\* URL with the content-node segment in the other spelling (2, 3), the URL
\* with the size suffix stripped, exactly (4) and in the other spelling (5, 6),
\* the asset-root scan (7), the raw source string (8); it returns a resource
\* of the first lookup that hits, and reports not-found, with no resource,
\* when none hits.
C9_LookupOrder ==
    lpc = "done" =>
        IF FirstHit = 0 THEN lres.found = FALSE /\ lres.res = NoResource
        ELSE lres.found /\ lres.res \in Hit(FirstHit)

C9_Witness ==
    /\ lpc = "done" /\ lres.found
    /\ Hit(1) = {} /\ Hit(4) # {} /\ Hit(7) # {} /\ Hit(7) # Hit(4)
    /\ lres.res \in Hit(4)

\* The scenario of C10: the resource is stored under
\* /a/b/jcr:content/i.p-8x6.p and /a/b/_jcr_content/i.p is requested on the
\* same host.
C10_Scenario ==
    /\ lpc = "done" /\ lraw = ReqUnderscore /\ lbase = BaseH
    /\ StoredSized.URL \in DOMAIN ltable

\* no other resource of the table answers the request: none under the exact
\* URL or its other spelling, and no image under the asset root as long as
\* the stored one
C10_NoRival ==
    /\ StoredUnderscore.URL \notin DOMAIN ltable
    /\ StoredColon.URL \notin DOMAIN ltable
    /\ \A k \in DOMAIN ltable :
         (ltable[k] # StoredSized /\ ltable[k] \in AssetMatches(Resolved(lraw, lbase), ltable))
            => ltable[k].Data.n < StoredSized.Data.n

\* C10 as stated: the reference resolves to the stored resource and is found
\* by the variant-rewrite and size-suffix-strip lookups (2..6), not by a
\* later one.
C10_ViaVariantAndStrip ==
    (C10_Scenario /\ C10_NoRival) =>
        /\ lres.found /\ lres.res = StoredSized
        /\ lres.step \in 2..6

\* C10 amended: the reference resolves to the stored resource; stripping the
\* size suffix leaves the request unchanged, the exact, variant and stripped
\* lookups (1..6) all miss, and the resource is found by the asset-root scan.
C10_ViaAssetRoot ==
    (C10_Scenario /\ C10_NoRival) =>
        /\ lres.found /\ lres.res = StoredSized
        /\ lres.step = 7
        /\ stripSizeSuffix(Resolved(lraw, lbase).path) = Resolved(lraw, lbase).path
        /\ \A n \in 1..6 : Hit(n) = {}

C10_Witness ==
    /\ C10_Scenario /\ C10_NoRival
    /\ lres.found /\ lres.res = StoredSized

\* the request path cut before its first content-node segment
ExpectedAssetRoot(path) ==
    LET at == {i \in 1..(Len(path) - 2) : SubSeq(path, i, i + 2) \in {JCRColon, JCRUnderscore}}
    IN IF at = {} THEN path
       ELSE SubSeq(path, 1, (CHOOSE i \in at : \A j \in at : i <= j) - 1)
\* the table resources with an image MIME type whose path starts with the
\* asset root of the request
Eligible ==
    {res \in {ltable[k] : k \in DOMAIN ltable} :
        /\ HasPrefix(res.MIMEType, <<"image/">>)
        /\ ~ParseFails(res.URL)
        /\ HasPrefix(ParseURL(res.URL).path, ExpectedAssetRoot(Resolved(lraw, lbase).path))}
AssetStepApplies == lpc # "idle" /\ ~ParseFails(lraw) /\ Resolved(lraw, lbase).path # <<>>
Largest(rs) == {res \in rs : \A o \in rs : o.Data.n <= res.Data.n}

\* C11 as stated: the asset-root step cuts the request path at the first
\* content-node segment and returns one of the largest resources among
\* those with an image MIME type and a path under the asset root, never
\* another resource, and no match when there is none.
C11_AssetRootLargest ==
    AssetStepApplies =>
      /\ findResourceByAsset(Resolved(lraw, lbase), ltable) \subseteq Largest(Eligible)
      /\ Eligible # {} => findResourceByAsset(Resolved(lraw, lbase), ltable) # {}
      /\ (lpc = "done" /\ lres.step = 7) => lres.res \in Largest(Eligible)
\* C11 amended: ... returns one of the largest such resources provided its
\* payload is not empty, and no match when there is none with a non-empty
\* payload.
C11_AssetRootLargestNonEmpty ==
    AssetStepApplies =>
      /\ findResourceByAsset(Resolved(lraw, lbase), ltable)
            = {res \in Largest(Eligible) : res.Data.n > 0}
      /\ (lpc = "done" /\ lres.step = 7) =>
            (lres.res \in Largest(Eligible) /\ lres.res.Data.n > 0)
C11_Witness ==
    /\ lpc = "done" /\ lres.found /\ lres.step = 7
    /\ Cardinality(Eligible) >= 2
    /\ Largest(Eligible) # Eligible
    /\ \E k \in DOMAIN ltable : ltable[k] \notin Eligible /\ ltable[k].Data.n > lres.res.Data.n

(***************************************************************************)
(* Properties of the archive decoding                                      *)
(***************************************************************************)
Decoded == dpc = "done" /\ dres.err = ""
RECURSIVE FrameLists(_)
FrameLists(subs) ==
    IF subs = <<>> THEN <<>>
    ELSE Head(subs).Subresources \o Head(subs).WebSubresources \o FrameLists(Tail(subs))
\* decode order: the top level's Subresources, its WebSubresources, then the
\* two lists of each sub-frame archive
DecodeOrder == dcontents.ar.Subresources \o dcontents.ar.WebSubresources
               \o FrameLists(dcontents.ar.WebSubframeArchives)
FirstWithURL(order, u) ==
    order[CHOOSE i \in 1..Len(order) :
            order[i].URL = u /\ \A j \in 1..(i - 1) : order[j].URL # u]

\* C12: after DecodeFile every key of the resource table holds the first
\* resource with that URL in decode order, a later resource with the same
\* URL never replaces it, and the empty URL is never a key.
C12_FirstOccurrenceWins ==
    Decoded =>
      \A k \in DOMAIN dres.resources :
        /\ k # <<>>
        /\ \E i \in 1..Len(DecodeOrder) : DecodeOrder[i].URL = k
        /\ dres.resources[k] = FirstWithURL(DecodeOrder, k)
C12_Witness ==
    /\ Decoded
    /\ \E i \in 1..Len(DecodeOrder) : DecodeOrder[i].URL = <<>>
    /\ \E i, j \in 1..Len(DecodeOrder) :
          /\ i < j /\ DecodeOrder[i].URL = DecodeOrder[j].URL
          /\ DecodeOrder[i].Data # DecodeOrder[j].Data
          /\ i <= Len(dcontents.ar.Subresources \o dcontents.ar.WebSubresources)
          /\ j > Len(dcontents.ar.Subresources \o dcontents.ar.WebSubresources)
          /\ dres.resources[DecodeOrder[i].URL] = DecodeOrder[i]

Range(seq) == {seq[i] : i \in 1..Len(seq)}
RECURSIVE NestedResources(_)
NestedResources(subs) ==
    IF subs = <<>> THEN {}
    ELSE Range(Head(subs).Subresources) \cup Range(Head(subs).WebSubresources)
         \cup NestedResources(Head(subs).WebSubframeArchives)
         \cup NestedResources(Tail(subs))

\* C13: the resource table DecodeFile returns holds the subresources of the
\* sub-frame archives nested at every depth, sub-frames of sub-frames
\* included.
C13_NestedSubframesFlattened ==
    Decoded =>
      \A res \in NestedResources(dcontents.ar.WebSubframeArchives) :
        res.URL # <<>> => res.URL \in DOMAIN dres.resources

\* the resolver of the run answers as the network resolver does when the web
\* serves ImageAt(u) at u and nothing else
RunsOnNetworkServing(u) ==
    /\ ~resolver.isNil
    /\ \A s \in RewriterURLs :
         /\ resolver.out[s].ok = NetworkServing(u).out[s].ok
         /\ resolver.out[s].url = NetworkServing(u).out[s].url
         /\ (resolver.out[s].err = "") = (NetworkServing(u).out[s].err = "")

\* C17: for every document, the rewriter run with the network resolver that
\* serves bytes B at URL U and run with the archive resolver whose table
\* holds B as an image under U return the same HTML and the same image
\* count.
C17_ResolversSubstitutable ==
    \A u \in RewriterURLs :
      (pc = "done" /\ RunsOnNetworkServing(u)) =>
        LET Same(archive) == doc = archive.out /\ imageCount = archive.count
        IN Same(processContent(ArchiveHolding(u), input, excludeImages))

(***************************************************************************)
(* Properties of a ResolveImage call                                       *)
(***************************************************************************)
\* the MIME type of a resource: the stored one, or the one sniffed from the
\* bytes when none is stored
EffectiveMIME(res) == IF res.MIMEType = <<>> THEN DetectContentType(res.Data) ELSE res.MIMEType
IsImageResource(res) == HasPrefix(EffectiveMIME(res), <<"image/">>)
ArchiveCallDone == npc = "done" /\ nresolver.kind = "archive"

\* C14: ResolveImageDataURL, and with it the archive resolver without a
\* fallback, reports found only for a resource whose stored or sniffed MIME
\* type begins with image/; a hit on any other resource is reported as
\* not found and nothing is inlined.
C14_OnlyImagesInlined ==
    /\ npc # "idle" =>
         \A d \in ResolveImageDataURL(nsrc, nbase, ntable) :
           /\ d.ok => (d.hit.found /\ IsImageResource(d.hit.res))
           /\ (d.hit.found /\ ~IsImageResource(d.hit.res)) => (~d.ok /\ d.url = <<>>)
    /\ (ArchiveCallDone /\ ~nresolver.fallback) =>
         /\ nout.ok => (nhit.found /\ IsImageResource(nhit.res))
         /\ (nhit.found /\ ~IsImageResource(nhit.res)) => nout = NoOutcome
C14_Witness ==
    /\ ArchiveCallDone /\ ~nresolver.fallback
    /\ nhit.found /\ nhit.res.MIMEType = <<>> /\ nout.ok
    /\ HasPrefix(nout.url, <<"data:", "image/">>)

\* the table lookup of the call hit: ResolveImageDataURL reported found
TableHit == nhit.found /\ IsImageResource(nhit.res)
TransformOfHit == processBase64ImageData(resourceToDataURL(nhit.res).url)
FallbackAfterMissOnly ==
    /\ nfallback <= 1
    /\ nfallback > 0 => (nresolver.kind = "archive" /\ nresolver.fallback /\ ~TableHit)
    /\ (nresolver.kind = "archive" /\ nfallback = 0) => nreqs = <<>>
OnMiss ==
    /\ (~TableHit /\ nresolver.fallback) => (nfallback = 1 /\ nout = nfbout)
    /\ (~TableHit /\ ~nresolver.fallback) => (nfallback = 0 /\ nout = NoOutcome)

C16_DataURIDecodedLocally ==
    (npc = "done" /\ nresolver.kind = "network" /\ nsrc # <<>> /\ Head(nsrc) = "data:") =>
      /\ nreqs = <<>>
      /\ nout = Resolved3(processBase64ImageData(nsrc))

\* C18: every fetch of the network resolver completes or fails within a
\* fixed time, whatever the server does and with the default client too:
\* a call that is fetching can always take the step that ends the fetch,
\* the answer or the timeout.
C18_FetchCompletes == (npc = "fetching") => ENABLED NextResolve

(***************************************************************************)
(* Properties of the rewriter                                              *)
(***************************************************************************)
Returned == pc = "done"
ImagesEnabled == Returned /\ ~excludeImages
IsDataURI(v) == HasPrefix(v, <<"data:">>)
IsInline(u) == HasPrefix(u, <<"data:", "image/">>)
EntriesOf(pass) == SelectSeq(passlog, LAMBDA e : e.pass = pass)
NonEmpty(us) == SelectSeq(us, LAMBDA u : u # <<>>)

\* a candidate that yields an image under the resolver of the run, and the
\* data URI it yields
Resolvable(u) ==
    IF IsInline(u) THEN processBase64ImageData(u).err = ""
    ELSE /\ ~resolver.isNil
         /\ ResolveImage(resolver, u).err = ""
         /\ ResolveImage(resolver, u).ok
DataURIOf(u) ==
    IF IsInline(u) THEN processBase64ImageData(u).url ELSE ResolveImage(resolver, u).url
FirstResolvable(us) ==
    LET ok == {i \in 1..Len(us) : Resolvable(us[i])}
    IN IF ok = {} THEN 0 ELSE CHOOSE i \in ok : \A j \in ok : i <= j

\* C1: with images enabled, every <img> of the returned content has a src
\* that starts with "data:", whatever each candidate's outcome was (success,
\* not found without error, error).
C1_NoDanglingSrc ==
    ImagesEnabled =>
      \A i \in 1..Len(FindAll(doc, {"img"})) :
         LET img == FindAll(doc, {"img"})[i]
         IN HasAttr(img, "src") /\ IsDataURI(Attr(img, "src"))

\* C2: with images enabled no error is returned, every element whose
\* candidates all failed to resolve is removed, and every picture, image and
\* lone source still gets its turn.
C2_FailureRemovesElement ==
    ImagesEnabled =>
      /\ err = ""
      /\ Len(EntriesOf("picture")) = Len(FindAll(input, {"picture"}))
      /\ \A i \in 1..Len(passlog) :
            (passlog[i].cands # <<>> /\ ~passlog[i].resolved) => passlog[i].out = <<>>

\* the candidate list the specification gives for a <picture>
RECURSIVE ExpectedFromSources(_, _)
ExpectedFromSources(sources, i) ==
    IF i > Len(sources) THEN <<>>
    ELSE NonEmpty(<<pickBestFromSrcset(Attr(sources[i], "srcset")), Attr(sources[i], "src")>>)
         \o ExpectedFromSources(sources, i + 1)
ExpectedCandidates(p) ==
    LET imgs == FindAll(p.kids, {"img"})
    IN (IF imgs = <<>> THEN <<>>
        ELSE NonEmpty(<<extractURLFromDataAttrs(Attr(imgs[1], "data-attrs")),
                        pickBestFromSrcset(Attr(imgs[1], "srcset")),
                        Attr(imgs[1], "src")>>))
       \o ExpectedFromSources(FindAll(p.kids, {"source"}), 1)
OriginalAlt(p) ==
    LET imgs == FindAll(p.kids, {"img"})
    IN IF imgs = <<>> THEN <<>> ELSE Attr(imgs[1], "alt")
OnlyBResolves ==
    /\ ~resolver.isNil
    /\ resolver.out[UrlB] = Success(UrlB)
    /\ resolver.out[UrlA] # Success(UrlA)
    /\ resolver.out[UrlC] # Success(UrlC)

\* C3: the candidates of a <picture> are the nested img's data-attrs URL,
\* the best entry of its srcset, its src, then per <source> the best srcset
\* entry and the src; they are tried in that order, each once, none after
\* the first success; the <picture> becomes one <img> with the first
\* successful candidate's data URI and the original alt, or goes when none
\* resolves.  With sources "a.jpg 480w", "b.jpg 800w" and img src c.jpg, only
\* b.jpg resolvable, the result is one <img> with b.jpg's data URI.
C3_PictureCollapse ==
    /\ \A i \in 1..Len(passlog) :
         LET e == passlog[i]
             k == FirstResolvable(e.cands)
         IN e.pass = "picture" =>
              /\ e.cands = ExpectedCandidates(e.node)
              /\ e.tried = SubSeq(e.cands, 1, IF k = 0 THEN Len(e.cands) ELSE k)
              /\ e.called = IF resolver.isNil THEN <<>>
                            ELSE SelectSeq(e.tried, LAMBDA u : ~IsInline(u))
              /\ k = 0 => e.out = <<>>
              /\ k # 0 =>
                   /\ Len(e.out) = 1
                   /\ e.out[1].tag = "img"
                   /\ Attr(e.out[1], "src") = DataURIOf(e.cands[k])
                   /\ Attr(e.out[1], "alt") = OriginalAlt(e.node)
    /\ (Returned /\ ~excludeImages /\ input = <<ScenarioPicture>> /\ OnlyBResolves) =>
          /\ calls = <<UrlC, UrlA, UrlB>>
          /\ doc = <<El("img", [src |-> Success(UrlB).url], <<>>)>>
C3_Witness ==
    /\ Returned /\ ~excludeImages /\ input = <<ScenarioPicture>> /\ OnlyBResolves
    /\ Len(FindAll(doc, {"img"})) = 1
    /\ imageCount = 1

ImageTags == {"img", "picture", "source", "figure"}
\* C4 as stated: with images disabled the returned content has no img,
\* picture, source or figure, the resolver is never called, the count is 0,
\* and the text outside those elements is preserved.
C4_ExcludeKeepsText ==
    (Returned /\ excludeImages) =>
      /\ FindAll(doc, ImageTags) = <<>>
      /\ calls = <<>> /\ passlog = <<>>
      /\ imageCount = 0
      /\ TextOutside(doc, {}) = TextOutside(input, ImageTags)
\* C4, amended: ... and the text outside those elements and outside svg
\* elements is preserved.
C4_ExcludeKeepsTextOutsideSvg ==
    (Returned /\ excludeImages) =>
      /\ FindAll(doc, ImageTags) = <<>>
      /\ calls = <<>> /\ passlog = <<>>
      /\ imageCount = 0
      /\ TextOutside(doc, {}) = TextOutside(input, ImageTags \cup {"svg"})
C4_Witness ==
    /\ Returned /\ excludeImages
    /\ ~resolver.isNil /\ \A u \in RewriterURLs : resolver.out[u] = Success(u)
    /\ FindAll(input, {"figure"}) # <<>> /\ FindAll(input, {"a"}) # <<>>
    /\ TextOutside(doc, {}) = <<"link">>

\* the candidates of a lone <source>, the preferred one first: the best
\* srcset entry, the other entries, the src
RECURSIVE EntryURLs(_, _)
EntryURLs(parts, i) ==
    IF i > Len(parts) THEN <<>>
    ELSE (IF Fields(TrimSpace(parts[i])) = <<>> THEN <<>> ELSE <<Fields(TrimSpace(parts[i]))[1]>>)
         \o EntryURLs(parts, i + 1)
SourceCandidates(s) ==
    LET best == pickBestFromSrcset(Attr(s, "srcset"))
    IN NonEmpty(<<best>>)
       \o SelectSeq(EntryURLs(SplitOn(Attr(s, "srcset"), ","), 1), LAMBDA u : u # best)
       \o NonEmpty(<<Attr(s, "src")>>)

\* C5: a <source> without a <picture> ancestor becomes an <img> with the
\* data URI of its best resolvable candidate (the other srcset entries and
\* the src being tried when the preferred one does not resolve), or goes
\* when none resolves; it never becomes an <img> without a resolved image.
C5_OrphanSource ==
    \A i \in 1..Len(passlog) :
       LET e == passlog[i]
           k == FirstResolvable(SourceCandidates(e.node))
       IN e.pass = "source" =>
            /\ k = 0 => e.out = <<>>
            /\ k # 0 => /\ Len(e.out) = 1
                        /\ e.out[1].tag = "img"
                        /\ Attr(e.out[1], "src") = DataURIOf(SourceCandidates(e.node)[k])

IsMarked(n) == Attr(n, "data-processed") = <<"1">>
\* C6: the <img> that picture collapsing produced, marked
\* data-processed="1", is skipped by the image pass: no resolver call for
\* it, src unchanged, not counted again, marker removed; no data-processed
\* attribute is left on an image of the returned content.
C6_MarkedImageSkipped ==
    /\ \A i \in 1..Len(passlog) :
         LET e == passlog[i]
         IN (e.pass = "img" /\ IsMarked(e.node)) =>
              /\ e.called = <<>> /\ e.tried = <<>>
              /\ ~e.counted
              /\ Len(e.out) = 1
              /\ Attr(e.out[1], "src") = Attr(e.node, "src")
              /\ ~HasAttr(e.out[1], "data-processed")
    /\ \A i \in 1..Len(passlog) :
         LET e == passlog[i]
         IN (e.pass = "picture" /\ e.resolved /\ pc \notin {"start", "parsed", "pictures"}) =>
              /\ IsMarked(e.out[1])
              /\ \E j \in 1..Len(passlog) : passlog[j].pass = "img" /\ passlog[j].node = e.out[1]
    /\ Returned =>
         /\ \A i \in 1..Len(FindAll(doc, {"img"})) : ~HasAttr(FindAll(doc, {"img"})[i], "data-processed")
         /\ imageCount = Len(SelectSeq(passlog, LAMBDA e : e.counted))
C6_Witness ==
    /\ Returned /\ ~excludeImages
    /\ input = <<FullPicture>>
    /\ \E i \in 1..Len(passlog) : passlog[i].pass = "picture" /\ passlog[i].resolved
    /\ \E j \in 1..Len(passlog) : passlog[j].pass = "img" /\ IsMarked(passlog[j].node)
    /\ imageCount = 1 /\ Len(FindAll(doc, {"img"})) = 1

\* the string a JSON object has under a key (empty when it has none)
StringField(obj, key) ==
    LET ms == SelectSeq(obj, LAMBDA m : m.key = key /\ m.kind = "string")
    IN IF ms = <<>> THEN <<>> ELSE ms[Len(ms)].val
Preferred(obj) ==
    IF StringField(obj, "srcNoWatermark") # <<>> THEN StringField(obj, "srcNoWatermark")
    ELSE StringField(obj, "src")
IsObjectText(text) == \E o \in DataAttrsObjects : JSONText(o) = text
ObjectOf(text) == CHOOSE o \in DataAttrsObjects : JSONText(o) = text
\* as stated: srcNoWatermark when it is a non-empty string, otherwise src,
\* and nothing for malformed JSON
ClaimedURL(text) == IF IsObjectText(text) THEN Preferred(ObjectOf(text)) ELSE <<>>
\* amended: nothing either when src or srcNoWatermark is neither a string
\* nor null
StringsOrNull(obj) ==
    \A i \in 1..Len(obj) :
      obj[i].key \in {"src", "srcNoWatermark"} => obj[i].kind \in {"string", "null"}
DecodedURL(text) ==
    IF IsObjectText(text) /\ StringsOrNull(ObjectOf(text)) THEN Preferred(ObjectOf(text))
    ELSE <<>>
DataAttrsEntries ==
    SelectSeq(passlog, LAMBDA e : e.pass = "img" /\ HasAttr(e.node, "data-attrs")
                                  /\ ~(HasAttr(e.node, "data-processed")
                                       /\ Attr(e.node, "data-processed") = <<"1">>))
\* the candidates of an <img> are tried in order and the first that
\* resolves is inlined
TriedInOrder(e) ==
    LET First(k) ==
          /\ e.tried = SubSeq(e.cands, 1, IF k = 0 THEN Len(e.cands) ELSE k)
          /\ k = 0 => e.out = <<>>
          /\ k # 0 => (Len(e.out) = 1 /\ Attr(e.out[1], "src") = DataURIOf(e.cands[k]))
    IN First(FirstResolvable(e.cands))
BothResolve ==
    /\ Returned /\ ~excludeImages /\ input = <<SubstackImg>>
    /\ Resolvable(UrlA) /\ Resolvable(UrlB)
NoWatermarkInlined ==
    BothResolve =>
      /\ calls = <<UrlB>>
      /\ Len(FindAll(doc, {"img"})) = 1
      /\ Attr(FindAll(doc, {"img"})[1], "src") = DataURIOf(UrlB)

\* C19 as stated: extractURLFromDataAttrs returns srcNoWatermark when it is
\* a non-empty string, otherwise src, otherwise nothing; malformed JSON
\* yields no candidate and the img's src is still tried; the data-attrs URL
\* is tried before the src, so that with x.jpg (src) and y.jpg
\* (srcNoWatermark) both resolvable y.jpg is inlined.
C19_DataAttrsPreferred ==
    /\ \A i \in 1..Len(DataAttrsEntries) :
         /\ extractURLFromDataAttrs(Attr(DataAttrsEntries[i].node, "data-attrs"))
              = ClaimedURL(Attr(DataAttrsEntries[i].node, "data-attrs"))
         /\ DataAttrsEntries[i].cands
              = NonEmpty(<<ClaimedURL(Attr(DataAttrsEntries[i].node, "data-attrs")),
                           Attr(DataAttrsEntries[i].node, "src")>>)
         /\ TriedInOrder(DataAttrsEntries[i])
    /\ NoWatermarkInlined
\* C19 amended: ... returns srcNoWatermark when it is a non-empty string,
\* otherwise src, provided neither field holds a value that is neither a
\* string nor null; malformed JSON and JSON with such a value yield no
\* candidate; the rest as stated.
C19_DataAttrsPreferredIfStrings ==
    /\ \A i \in 1..Len(DataAttrsEntries) :
         /\ extractURLFromDataAttrs(Attr(DataAttrsEntries[i].node, "data-attrs"))
              = DecodedURL(Attr(DataAttrsEntries[i].node, "data-attrs"))
         /\ DataAttrsEntries[i].cands
              = NonEmpty(<<DecodedURL(Attr(DataAttrsEntries[i].node, "data-attrs")),
                           Attr(DataAttrsEntries[i].node, "src")>>)
         /\ TriedInOrder(DataAttrsEntries[i])
    /\ NoWatermarkInlined
C19_Witness ==
    /\ BothResolve /\ Resolvable(UrlC)
    /\ calls = <<UrlB>> /\ imageCount = 1
    /\ Attr(FindAll(doc, {"img"})[1], "src") = DataURIOf(UrlB)

\* every <a> removed, at every depth, its children in its place
RECURSIVE Unwrapped(_)
Unwrapped(forest) ==
    IF forest = <<>> THEN <<>>
    ELSE (IF Head(forest).tag = "a" THEN Unwrapped(Head(forest).kids)
          ELSE <<[Head(forest) EXCEPT !.kids = Unwrapped(Head(forest).kids)]>>)
         \o Unwrapped(Tail(forest))

\* C20: the step that unwraps the anchors leaves no <a> in the content, for
\* anchors inside other anchors' content too, and puts each anchor's
\* children in its place in their order.
C20_AnchorsUnwrapped ==
    [][(pc = "nosvg" /\ pc' = "unwrapped") =>
         (FindAll(doc', {"a"}) = <<>> /\ doc' = Unwrapped(doc))]_vars

InlinedImages ==
    SelectSeq(FindAll(doc, {"img"}), LAMBDA i : HasAttr(i, "src") /\ IsDataURI(Attr(i, "src")))

\* C21: the image count processContent returns is the number of <img>
\* elements with a data: src in the returned content; each picture, img and
\* orphan source counts 1 when its image was inlined and 0 otherwise.
C21_CountIsInlinedImages ==
    Returned =>
      /\ imageCount = Len(InlinedImages)
      /\ \A i \in 1..Len(passlog) :
           passlog[i].counted =>
             (Len(passlog[i].out) = 1 /\ IsDataURI(Attr(passlog[i].out[1], "src")))


(***************************************************************************)
(* Properties of InlineImages and of the archive path                      *)
(***************************************************************************)
\* the elements InlineImages visits, before and after, in document order
VisitedIn == FindAll(ihtml, {"img", "source"})
VisitedOut == FindAll(iinlined, {"img", "source"})
InlineDone == ipc \in {"inlined", "done"}
HoldsWebURL(v) == Len(v) > 0 /\ v[1] \in SchemeTokens
FoundInTable(raw) == \E h \in resolveResource(raw, InlineBase, itable) : h.found
FoundAsImage(raw) == \E d \in ResolveImageDataURL(raw, InlineBase, itable) : d.ok
URLAttrs(n) == IF n.tag = "img" THEN {"src", "data-src"} ELSE {"src"}
SetAttrs(n) == IF n.tag = "img" THEN {"srcset", "data-srcset"} ELSE {"srcset"}
PlainRaws == {AbsFound, RelFound, AbsMissing, RelMissing, AbsStyle, AbsUnparsable}
IsBase64URI(v) == HasPrefix(v, <<"data:">>) /\ Contains(v, <<";base64">>)
NoUnresolvedEntry(v) == \A raw \in PlainRaws : ~FoundAsImage(raw) => ~Contains(v, raw)

\* C22: after InlineImages no src or data-src of an <img> and no src of a
\* <source> holds an http/https URL that was not found in the table, no
\* srcset or data-srcset keeps an entry that was not resolved from the table,
\* and a src that is found in the table is replaced by a base64 data URI.
C22_InlinedOrRemoved ==
    InlineDone =>
      \A k \in 1..Len(VisitedIn) :
        /\ \A a \in URLAttrs(VisitedOut[k]) :
             (HasAttr(VisitedOut[k], a) /\ HoldsWebURL(Attr(VisitedOut[k], a)))
               => FoundInTable(Attr(VisitedOut[k], a))
        /\ \A a \in SetAttrs(VisitedOut[k]) :
             HasAttr(VisitedOut[k], a) => NoUnresolvedEntry(Attr(VisitedOut[k], a))
        /\ (HasAttr(VisitedIn[k], "src") /\ FoundInTable(Attr(VisitedIn[k], "src")))
             => (HasAttr(VisitedOut[k], "src") /\ IsBase64URI(Attr(VisitedOut[k], "src")))

\* C22, amended: after InlineImages no src or data-src of an <img> and no src
\* of a <source> holds an http/https URL that url.Parse accepts, no srcset or
\* data-srcset of an <img> and no srcset of a <source> keeps an entry that was
\* not resolved from the table (the attribute is gone when no entry
\* resolves), and a src that is found in the table as an image resource is
\* replaced by a base64 data URI.
C22_InlinedAsImageOrRemoved ==
    InlineDone =>
      \A k \in 1..Len(VisitedIn) :
        /\ \A a \in URLAttrs(VisitedOut[k]) :
             HasAttr(VisitedOut[k], a)
               => ~(HoldsWebURL(Attr(VisitedOut[k], a)) /\ ~ParseFails(Attr(VisitedOut[k], a)))
        /\ \A a \in SetAttrs(VisitedOut[k]) :
             HasAttr(VisitedOut[k], a)
               => (Attr(VisitedOut[k], a) # <<>> /\ NoUnresolvedEntry(Attr(VisitedOut[k], a)))
        /\ (HasAttr(VisitedIn[k], "src") /\ FoundAsImage(Attr(VisitedIn[k], "src")))
             => (HasAttr(VisitedOut[k], "src") /\ IsBase64URI(Attr(VisitedOut[k], "src")))

\* an article with an image the archive holds and an image it lacks, inlined:
\* the one has its data URI, the other has lost its src and its srcset
C22_Witness ==
    /\ InlineDone
    /\ \E k \in 1..Len(VisitedIn) :
         /\ HasAttr(VisitedIn[k], "src") /\ FoundAsImage(Attr(VisitedIn[k], "src"))
         /\ Attr(VisitedOut[k], "src") = HeldImageURI
    /\ \E k \in 1..Len(VisitedIn) :
         /\ Attr(VisitedIn[k], "src") = AbsMissing /\ HasAttr(VisitedIn[k], "srcset")
         /\ ~HasAttr(VisitedOut[k], "src") /\ ~HasAttr(VisitedOut[k], "srcset")


\* C28: after InlineImages every <img> src that starts with data: is a complete
\* data URI data:<mime>;base64,<payload>, which parseBase64DataURL accepts,
\* also when the src was filled from the first entry of the rewritten srcset.
C28_DataSrcComplete ==
    InlineDone =>
      \A k \in 1..Len(VisitedOut) :
        (/\ VisitedOut[k].tag = "img" /\ HasAttr(VisitedOut[k], "src")
         /\ HasPrefix(Attr(VisitedOut[k], "src"), <<"data:">>))
          => /\ parseBase64DataURL(Attr(VisitedOut[k], "src")).err = ""
             /\ Contains(Attr(VisitedOut[k], "src"), <<";base64", ",">>)

\* the sources of the <img> elements of the article that have no other
\* attribute to take an image from
OnlySrc(n) == n.tag = "img" /\ HasAttr(n, "src") /\ DOMAIN n.attrs \subseteq {"src", "alt"}
OfferedToFallback(src) == \E i \in 1..Len(ioffered) : ioffered[i] = src

\* C27: on the archive path with a fallback resolver, the src of every <img>
\* that misses the table, absolute or relative, has been handed to the
\* fallback by the time the content is processed and the element removed
\* (stated for the <img> elements whose only source is their src).
C27_MissesReachFallback ==
    ipc = "done" =>
      \A k \in 1..Len(VisitedIn) :
        (OnlySrc(VisitedIn[k]) /\ ~FoundInTable(Attr(VisitedIn[k], "src")))
          => OfferedToFallback(Attr(VisitedIn[k], "src"))


\* the attributes removeImageAttributes is said to take away
DroppedAttributes ==
    {"srcset", "sizes", "loading", "width", "height", "style", "class", "data-attrs",
     "data-orig-size", "data-medium-file", "data-large-file"}
\* the entry of the image pass for an <img> of the document it ran on
ImgEntryOf(n) == CHOOSE e \in Range(passlog) : e.pass = "img" /\ e.node = n
\* a document with every <img> replaced, where it stands, by what the image
\* pass put in its place
RECURSIVE InPlace(_)
InPlace(forest) ==
    IF forest = <<>> THEN <<>>
    ELSE LET n == Head(forest)
         IN (IF n.tag = "img" THEN ImgEntryOf(n).out
             ELSE <<[n EXCEPT !.kids = InPlace(n.kids)]>>)
            \o InPlace(Tail(forest))
\* an <img> the picture pass has put in place
FromPicturePass(n) == IsMarked(n) /\ IsDataURI(Attr(n, "src"))

\* C25: when the image pass resolves an <img>, its src is the data URI, the
\* attributes removeImageAttributes names are absent, every other attribute
\* and the children are as before, and the element stands where it stood;
\* when the pass does not resolve it, the element is removed (the <img> the
\* picture pass put in place already holds its image).
C25_ResolvedImageFrame ==
    /\ \A i \in 1..Len(passlog) :
         LET e == passlog[i]
         IN e.pass = "img" =>
              /\ e.resolved =>
                   /\ Len(e.out) = 1 /\ e.out[1].tag = "img"
                   /\ IsDataURI(Attr(e.out[1], "src"))
                   /\ DOMAIN e.out[1].attrs
                        = ((DOMAIN e.node.attrs) \ DroppedAttributes) \cup {"src"}
                   /\ \A a \in (DOMAIN e.out[1].attrs) \ {"src"} :
                        e.out[1].attrs[a] = e.node.attrs[a]
                   /\ e.out[1].kids = e.node.kids
              /\ (~e.resolved /\ ~FromPicturePass(e.node)) => e.out = <<>>
    /\ pc = "images" => doc = InPlace(processPictureElements(resolver, input).out)


\* C29: a resource the lookup returns through a step other than the raw-key
\* step (8) has the scheme and the host of the request resolved against the
\* base URL.
C29_SameHost ==
    (lpc = "done" /\ lres.found /\ lres.step # 8) =>
      /\ ParseURL(lres.res.URL).scheme = Resolved(lraw, lbase).scheme
      /\ ParseURL(lres.res.URL).host = Resolved(lraw, lbase).host

\* C30: for a fixed source string, base URL and table every call of
\* resolveResource returns the same resource, also when several resources
\* under the asset root have payloads of equal size.
C30_LookupDeterministic ==
    lpc = "done" =>
      \A again \in resolveResource(lraw, lbase, ltable) : again.res = lres.res


(***************************************************************************)
(* Properties of pickBestFromSrcset                                        *)
(***************************************************************************)
DeclaredWidth(e) ==
    IF e.desc = <<"480w">> THEN 480 ELSE IF e.desc = <<"800w">> THEN 800 ELSE 0
NonBlankEntries == SelectSeq(ssrcset, LAMBDA e : e.url # <<>>)
ExpectedBest ==
    IF NonBlankEntries = <<>> THEN <<>>
    ELSE NonBlankEntries[CHOOSE i \in 1..Len(NonBlankEntries) :
           /\ \A j \in 1..Len(NonBlankEntries) :
                DeclaredWidth(NonBlankEntries[j]) <= DeclaredWidth(NonBlankEntries[i])
           /\ \A j \in 1..(i - 1) :
                DeclaredWidth(NonBlankEntries[j]) < DeclaredWidth(NonBlankEntries[i])].url

\* C26: pickBestFromSrcset returns the URL of the entry with the largest
\* declared w-width, an entry without a width counting as width 0 and the
\* earliest of equal widths winning; the result is empty only when the
\* srcset has no non-blank entry.
C26_LargestWidthFirst ==
    spc = "done" => sbest = ExpectedBest


(***************************************************************************)
(* Properties of the retrieval chain                                       *)
(***************************************************************************)
\* the order the methods are said to be tried in: direct HTTP, then
\* ScrapingBee when a key is set; ScrapingBee first when forced (and a key is
\* set), direct HTTP after it
ClaimedOrder ==
    IF ~CanHandle(Vanilla, curl) THEN <<>>
    ELSE IF cconfig.force /\ cconfig.key THEN <<ScrapingBee, Vanilla>>
    ELSE IF cconfig.key THEN <<Vanilla, ScrapingBee>>
    ELSE <<Vanilla>>
Succeeds(method) == IF method = Vanilla THEN cweb.vanilla = "ok" ELSE cweb.bee = "ok"
FirstSuccess ==
    IF \E i \in 1..Len(ClaimedOrder) : Succeeds(ClaimedOrder[i])
    THEN CHOOSE i \in 1..Len(ClaimedOrder) :
           Succeeds(ClaimedOrder[i]) /\ \A j \in 1..(i - 1) : ~Succeeds(ClaimedOrder[j])
    ELSE 0

\* C23: Chain.Retrieve tries the configured methods in order, each at most
\* once, goes on to the next method when one fails, returns the result of the
\* first method that succeeds, and a Result with an error when none does.
C23_FirstSuccessInOrder ==
    cpc = "done" =>
      IF FirstSuccess = 0
      THEN cresult.error # "" /\ ctried = ClaimedOrder
      ELSE /\ cresult.error = "" /\ cresult.by = ClaimedOrder[FirstSuccess]
           /\ ctried = SubSeq(ClaimedOrder, 1, FirstSuccess)


(***************************************************************************)
(* Properties of the TUI                                                   *)
(***************************************************************************)
ScreenEdges ==
    {<<"inputScreen", "retrievalScreen">>, <<"retrievalScreen", "postProcessingScreen">>,
     <<"postProcessingScreen", "editScreen">>, <<"editScreen", "sendingScreen">>,
     <<"sendingScreen", "completionScreen">>, <<"retrievalScreen", "completionScreen">>,
     <<"postProcessingScreen", "completionScreen">>, <<"completionScreen", "inputScreen">>}
\* the screen changes along the edges only, a retrieval or post-processing
\* screen gives way to the completion screen only with an error, and Enter
\* on the input screen with an empty URL changes nothing
ScreenStepOK ==
    /\ ustate' # ustate => <<ustate, ustate'>> \in ScreenEdges
    /\ (ustate \in {"retrievalScreen", "postProcessingScreen"} /\ ustate' = "completionScreen")
         => uerr' # ""
    /\ (KeyEnter /\ ustate = "inputScreen" /\ uurl = "") => UNCHANGED uvars
TogglesChange == uexclude' # uexclude \/ uchromedp' # uchromedp

\* C24: the screen changes only along input -> retrieval -> post-processing
\* -> edit -> sending -> completion, from retrieval or post-processing to
\* completion on failure, and from completion to input on Enter; Enter on
\* the input screen with an empty URL changes nothing; the option toggles
\* change only while the screen is the input screen.
C24_ScreenOrder ==
    [][ScreenStepOK /\ (TogglesChange => ustate = "inputScreen")]_vars

\* C24, amended: ... the option toggles change only while the screen is the
\* input screen, or are both switched off by the Enter on the completion
\* screen that returns to the input screen.
C24_ScreenOrderWithReset ==
    [][/\ ScreenStepOK
       /\ TogglesChange =>
            \/ ustate = "inputScreen"
            \/ /\ ustate = "completionScreen" /\ ustate' = "inputScreen"
               /\ ~uexclude' /\ ~uchromedp']_vars

\* the completion screen after a delivery without error, reached with both
\* options switched on
C24_Witness ==
    /\ ustate = "completionScreen" /\ uerr = "" /\ uexclude /\ uchromedp

=============================================================================
